---- MODULE Spec2Model ----
(***************************************************************************)
(* Silent Spiral: the trajectory integrator (generateSpiral, spiral.js),   *)
(* the prime table and harmonic coupling (primes.js) and the dimensional   *)
(* projector (projectSpiral, projection.js).                               *)
(*                                                                         *)
(* JavaScript numbers are modelled by a finite abstraction of IEEE-754     *)
(* doubles: a value is either a fixed-point integer n standing for         *)
(* n / SCALE with |n| <= MaxMag, or one of NaN, +Infinity, -Infinity.      *)
(* A finite result whose magnitude exceeds MaxMag overflows to an          *)
(* infinity, as a double does above Number.MAX_VALUE.  Values that are     *)
(* not of number type (undefined, a string) are kept apart so that typeof  *)
(* tests can be translated literally.                                      *)
(***************************************************************************)
EXTENDS Integers, Sequences, FiniteSets, TLC

\* ------------------------------------------------------------------------
\* Bounds of the model
\* ------------------------------------------------------------------------
\* fixed-point resolution: the integer n stands for n / SCALE
SCALE == 100
\* largest finite magnitude (in fixed-point units) before overflow
MaxMag == 20000000
\* largest step count passed to generateSpiral by the modelled callers
MaxSteps == 4

\* ------------------------------------------------------------------------
\* JavaScript values
\* ------------------------------------------------------------------------
Fin(n) == [k |-> "fin", v |-> n]
NaN == [k |-> "nan", v |-> 0]
PInf == [k |-> "inf", v |-> 1]
NInf == [k |-> "inf", v |-> -1]
Undefined == [k |-> "undef", v |-> 0]
Str == [k |-> "string", v |-> 0]

Zero == Fin(0)
One == Fin(SCALE)
\* the decimal literal num/den of the source text, e.g. Lit(1, 10) for 0.1
Lit(num, den) == Fin((num * SCALE) \div den)
\* an integer-valued number
Whole(n) == Fin(n * SCALE)

Abs(n) == IF n < 0 THEN -n ELSE n
Sgn(n) == IF n < 0 THEN -1 ELSE IF n > 0 THEN 1 ELSE 0

\* typeof a === 'number'
TypeofNumber(a) == a.k \in {"fin", "nan", "inf"}
\* isNaN(a) for a of number type
IsNaN(a) == a.k = "nan"
\* isFinite(a)
IsFinite(a) == a.k = "fin"
\* Number.isInteger(a)
IsInteger(a) == a.k = "fin" /\ a.v % SCALE = 0
\* a || 0, by the JavaScript truthiness of a (0, NaN and undefined are falsy)
OrZero(a) ==
  LET Truthy == CASE a.k = "fin" -> a.v # 0
                  [] a.k = "inf" -> TRUE
                  [] a.k = "string" -> TRUE
                  [] OTHER -> FALSE
  IN  IF Truthy THEN a ELSE Zero

\* rounding of an exact fixed-point result to the representable range
Norm(n) == IF n > MaxMag THEN PInf ELSE IF n < -MaxMag THEN NInf ELSE Fin(n)
InfOf(s) == IF s < 0 THEN NInf ELSE PInf

\* n / d for n >= 0, d > 0, rounded to the nearest integer
Round(n, d) == (n + d \div 2) \div d

\* unary minus
Neg(a) == CASE a.k = "fin" -> Fin(-a.v)
            [] a.k = "inf" -> InfOf(-a.v)
            [] OTHER -> NaN

\* a + b on numbers (undefined operands give NaN)
Add(a, b) ==
  CASE a.k = "fin" /\ b.k = "fin" -> Norm(a.v + b.v)
    [] a.k = "inf" /\ b.k = "inf" -> IF a.v = b.v THEN a ELSE NaN
    [] a.k = "inf" /\ b.k = "fin" -> a
    [] a.k = "fin" /\ b.k = "inf" -> b
    [] OTHER -> NaN


\* largest product of two magnitudes that is formed exactly
MaxProd == MaxMag * SCALE

\* a * b on numbers
Mul(a, b) ==
  CASE a.k = "fin" /\ b.k = "fin" ->
         IF a.v = 0 \/ b.v = 0 THEN Zero
         ELSE IF Abs(a.v) > MaxProd \div Abs(b.v) THEN InfOf(Sgn(a.v) * Sgn(b.v))
         ELSE Norm(Sgn(a.v) * Sgn(b.v) * Round(Abs(a.v) * Abs(b.v), SCALE))
    [] a.k = "inf" /\ b.k = "inf" -> InfOf(a.v * b.v)
    [] a.k = "inf" /\ b.k = "fin" -> IF b.v = 0 THEN NaN ELSE InfOf(a.v * Sgn(b.v))
    [] a.k = "fin" /\ b.k = "inf" -> IF a.v = 0 THEN NaN ELSE InfOf(b.v * Sgn(a.v))
    [] OTHER -> NaN

\* a * c for the decimal literal c = num/den of the source text (num, den > 0),
\* formed without first rounding c to the fixed-point grid
Scale(a, num, den) ==
  CASE a.k = "fin" ->
         IF Abs(a.v) > MaxProd \div num THEN InfOf(Sgn(a.v))
         ELSE Norm(Sgn(a.v) * Round(Abs(a.v) * num, den))
    [] a.k = "inf" -> a
    [] OTHER -> NaN

\* a / b on numbers
Div(a, b) ==
  CASE a.k = "fin" /\ b.k = "fin" ->
         IF b.v = 0 THEN (IF a.v = 0 THEN NaN ELSE InfOf(Sgn(a.v)))
         ELSE IF Abs(a.v) > MaxProd \div SCALE THEN InfOf(Sgn(a.v) * Sgn(b.v))
         ELSE Norm(Sgn(a.v) * Sgn(b.v) * Round(Abs(a.v) * SCALE, Abs(b.v)))
    [] a.k = "inf" /\ b.k = "fin" -> InfOf(a.v * (IF b.v < 0 THEN -1 ELSE 1))
    [] a.k = "fin" /\ b.k = "inf" -> Zero
    [] OTHER -> NaN

\* a % b (remainder with the sign of the dividend)
Rem(a, b) ==
  CASE a.k = "fin" /\ b.k = "fin" ->
         IF b.v = 0 THEN NaN ELSE Fin(Sgn(a.v) * (Abs(a.v) % Abs(b.v)))
    [] a.k = "fin" /\ b.k = "inf" -> a
    [] OTHER -> NaN

\* comparisons: every comparison with NaN or a non-number is false
Lt(a, b) ==
  CASE a.k = "fin" /\ b.k = "fin" -> a.v < b.v
    [] a.k = "inf" /\ b.k = "fin" -> a.v < 0
    [] a.k = "fin" /\ b.k = "inf" -> b.v > 0
    [] a.k = "inf" /\ b.k = "inf" -> a.v < b.v
    [] OTHER -> FALSE
Gt(a, b) == Lt(b, a)
Le(a, b) ==
  CASE a.k = "fin" /\ b.k = "fin" -> a.v <= b.v
    [] a.k = "inf" /\ b.k = "fin" -> a.v < 0
    [] a.k = "fin" /\ b.k = "inf" -> b.v > 0
    [] a.k = "inf" /\ b.k = "inf" -> a.v <= b.v
    [] OTHER -> FALSE
Ge(a, b) == Le(b, a)

\* Math.PI
PI == Lit(3141593, 1000000)

\* Math.sin on [0, pi], Bhaskara's rational approximation, in fixed point
SinHalf(t) ==
  LET q == (t * (PI.v - t)) \div SCALE
      d == (5 * PI.v * PI.v) \div SCALE - 4 * q
  IN  (16 * q * SCALE) \div d

\* Math.sin of a fixed-point argument
SinFin(n) ==
  LET r == n % (2 * PI.v)
  IN  IF r <= PI.v THEN SinHalf(r) ELSE -SinHalf(r - PI.v)

\* Math.sin, Math.cos: NaN for NaN and for the infinities
MathSin(a) == IF a.k = "fin" THEN Fin(SinFin(a.v)) ELSE NaN
MathCos(a) == IF a.k = "fin" THEN Fin(SinFin(a.v + PI.v \div 2)) ELSE NaN

\* Math.tanh: odd, monotone, bounded by 1; Pade approximant clamped at |x| >= 3
MathTanh(a) ==
  LET TanhFin(n) ==
        LET m == Abs(n)
            sq == (m * m) \div SCALE
            num == m * (27 * SCALE + sq)
            den == 27 * SCALE + 9 * sq
            t == num \div den
        IN  IF m >= 3 * SCALE THEN Sgn(n) * SCALE
            ELSE Sgn(n) * (IF t > SCALE THEN SCALE ELSE t)
  IN  CASE a.k = "fin" -> Fin(TanhFin(a.v))
        [] a.k = "inf" -> Fin(a.v * SCALE)
        [] OTHER -> NaN

\* ------------------------------------------------------------------------
\* Small positive numbers
\* ------------------------------------------------------------------------
\* The harmonic weights range from 1e-2 down to 1e-9, below the fixed-point
\* grid.  They are carried as decimal floating-point numbers m / 10^e with a
\* mantissa m of DecBase's digits; 0 is the mantissa 0.
DecBase == SCALE * SCALE

RECURSIVE Pow10(_)
Pow10(k) == IF k <= 0 THEN 1 ELSE 10 * Pow10(k - 1)

DecZero == [m |-> 0, e |-> 0]
\* m / 10^e with the mantissa brought into [DecBase / 10, DecBase); a value
\* below the smallest double (4.9e-324) underflows to 0
RECURSIVE Dec(_, _)
Dec(m, e) ==
  IF m = 0 THEN DecZero
  ELSE IF m >= DecBase THEN Dec(Round(m, 10), e - 1)
  ELSE IF m < DecBase \div 10 THEN Dec(m * 10, e + 1)
  ELSE IF e > 327 THEN DecZero
  ELSE [m |-> m, e |-> e]

\* a * b
DecMul(a, b) == Dec(a.m * b.m, a.e + b.e)
\* a < b
DecLt(a, b) ==
  IF a.m = 0 \/ b.m = 0 THEN a.m < b.m
  ELSE IF a.e = b.e THEN a.m < b.m
  ELSE IF a.e < b.e
       THEN b.e - a.e <= 4 /\ a.m * Pow10(b.e - a.e) < b.m
       ELSE a.e - b.e > 4 \/ a.m < b.m * Pow10(a.e - b.e)

\* exp(-t) for 0 <= t < 1, t = T / DecBase: the Taylor series to the 8th
\* term in Horner form, in units of 1 / DecBase
RECURSIVE ExpSeries(_, _)
ExpSeries(T, k) ==
  IF k > 8 THEN DecBase ELSE DecBase - (T * ExpSeries(T, k + 1)) \div (k * DecBase)

\* exp(-1)^q, by repeated squaring
RECURSIVE ExpNegWhole(_)
ExpNegWhole(q) ==
  IF q = 0 THEN Dec(1, 0)
  ELSE LET half == ExpNegWhole(q \div 2)
           square == DecMul(half, half)
       IN  IF q % 2 = 0 THEN square ELSE DecMul(Dec(367879, 6), square)

\* Math.exp(-num / den) for integers num >= 0, den > 0
MathExp(num, den) ==
  LET q == num \div den
      r == num % den
  IN  IF q > 746 THEN DecZero
      ELSE DecMul(ExpNegWhole(q), Dec(ExpSeries(Round(r * DecBase, den), 1), 4))

\* a * w for a number a and a small positive number w; the magnitude of a is
\* split in two so that neither product leaves the integers; ScaledBy(P, e)
\* is P / 10^e rounded, anything above MaxMag counting as overflow
MulDec(a, w) ==
  CASE a.k = "fin" ->
         IF a.v = 0 \/ w.m = 0 THEN Zero
         ELSE LET hi == Abs(a.v) \div Pow10(4)
                  lo == Abs(a.v) % Pow10(4)
                  ScaledBy(P, e) ==
                    IF e > 9 THEN 0
                    ELSE IF e >= 0 THEN Round(P, Pow10(e))
                    ELSE IF e < -9 \/ P > MaxMag \div Pow10(-e) THEN MaxMag + 1
                    ELSE P * Pow10(-e)
              IN  Norm(Sgn(a.v) * (ScaledBy(hi * w.m, w.e - 4) + ScaledBy(lo * w.m, w.e)))
    [] a.k = "inf" -> IF w.m = 0 THEN NaN ELSE a
    [] OTHER -> NaN

\* ------------------------------------------------------------------------
\* Loops
\* ------------------------------------------------------------------------
Min(a, b) == IF a < b THEN a ELSE b

\* for (i = from; i < to; i++) acc = body(i, acc): the iterations run in
\* ascending order, the range being split in halves and the value reached
\* after the first half bound before the second half starts
RECURSIVE ForLoop(_, _, _, _)
ForLoop(body(_, _), from, to, acc) ==
  IF from >= to THEN acc
  ELSE IF from + 1 = to THEN body(from, acc)
  ELSE LET mid == (from + to) \div 2
       IN  CHOOSE r \in {ForLoop(body, mid, to, left) :
                           left \in {ForLoop(body, from, mid, acc)}} : TRUE

\* ------------------------------------------------------------------------
\* primes.js
\* ------------------------------------------------------------------------

\* marking from i*i + i on, the square itself left unmarked
SieveMarkAfterSquare(sieve, i, limit) ==
  [n \in DOMAIN sieve |->
     IF n >= i * i + i /\ n <= limit /\ (n - i * i) % i = 0 THEN FALSE ELSE sieve[n]]

\* inner loop of the sieve: for (j = i*i; j <= limit; j += i) sieve[j] = false
SieveMark(sieve, i, limit) ==
  [n \in DOMAIN sieve |->
     IF n >= i * i /\ n <= limit /\ (n - i * i) % i = 0 THEN FALSE ELSE sieve[n]]

\* outer loop of the sieve: for (i = 2; i*i <= limit; i++) if (sieve[i]) ...
RECURSIVE SieveLoop(_, _, _)
SieveLoop(sieve, i, limit) ==
  IF i * i <= limit
  THEN SieveLoop(IF sieve[i] THEN SieveMark(sieve, i, limit) ELSE sieve, i + 1, limit)
  ELSE sieve

\* new Array(limit + 1).fill(true), the marking loop, and then
\* for (i = 2; i <= limit; i++) if (sieve[i]) primes.push(i)
sieveOfEratosthenes(limit) ==
  LET fresh == [n \in 0..(IF limit < 1 THEN 1 ELSE limit) |-> n \notin {0, 1}]
      SieveCollect(sieve) ==
        ForLoop(LAMBDA i, collected : IF sieve[i] THEN Append(collected, i) ELSE collected,
                2, limit + 1, <<>>)
  IN  SieveCollect(SieveLoop(fresh, 2, limit))

\* EXTENDED_PRIMES holds the primes up to this limit
PrimeLimit == 1000

\* Array.prototype.slice(0, n)
SliceTo(s, n) == SubSeq(s, 1, Min(n, Len(s)))

isPrimeResonant(prime) ==
  LET resonantPrimes == {2, 3, 5, 7, 11, 13, 17, 19, 23, 29, 31, 37, 41, 43, 47}
  IN  prime \in resonantPrimes

\* the weight without the hard limit
getHarmonicWeightUncapped(prime, index, totalPrimes) ==
  LET decayFactor == MathExp(index * 10, totalPrimes)
      resonanceBoost == IF isPrimeResonant(prime) THEN Dec(11, 1) ELSE Dec(1, 0)
      frequencyScale == Dec(Round(Pow10(9), prime * prime), 9)
  IN  DecMul(DecMul(decayFactor, resonanceBoost), frequencyScale)

\* decayFactor = Math.exp(-index / (totalPrimes * 0.1)), the argument being
\* -(10 * index) / totalPrimes; frequencyScale = 1 / (prime * prime);
\* Math.min(weight, 0.01)
getHarmonicWeight(prime, index, totalPrimes) ==
  LET decayFactor == MathExp(index * 10, totalPrimes)
      resonanceBoost == IF isPrimeResonant(prime) THEN Dec(11, 1) ELSE Dec(1, 0)
      frequencyScale == Dec(Round(Pow10(9), prime * prime), 9)
      weight == DecMul(DecMul(decayFactor, resonanceBoost), frequencyScale)
  IN  IF DecLt(Dec(1, 2), weight) THEN Dec(1, 2) ELSE weight

\* second loop of calculateHarmonicCoupling, over i < j < min(5, numHarmonics);
\* CrossTerm is the term the inner loop adds for the pair (i, j)
CrossCoupling(harmonics, primes, time, numHarmonics, direct) ==
  LET CrossTerm(i, j) ==
        Scale(Mul(Mul(MathTanh(harmonics[i + 1]), MathTanh(harmonics[j + 1])),
                  MathSin(Scale(Mul(Whole(primes[i + 1] + primes[j + 1]), time), 1, 10000))),
              1, 10000)
  IN  ForLoop(LAMBDA i, outer :
                ForLoop(LAMBDA j, coupling : Add(coupling, CrossTerm(i, j)),
                        i + 1, Min(5, numHarmonics), outer),
              0, Min(5, numHarmonics), direct)

\* couplingStrength is the decimal literal of the call site, as <<num, den>>;
\* DirectCoupling is the first loop:
\* coupling += tanh(harmonics[i] * weight * cos(primes[i] * time * 0.001))
calculateHarmonicCoupling(harmonics, primes, time, couplingStrength) ==
  LET numHarmonics == Min(Len(harmonics), Len(primes))
      DirectCoupling ==
        ForLoop(LAMBDA i, coupling :
                  Add(coupling,
                      MathTanh(Mul(MulDec(harmonics[i + 1],
                                          getHarmonicWeight(primes[i + 1], i, numHarmonics)),
                                   MathCos(Scale(Mul(Whole(primes[i + 1]), time), 1, 1000))))),
                0, numHarmonics, Zero)
      coupling == CrossCoupling(harmonics, primes, time, numHarmonics, DirectCoupling)
  IN  MathTanh(Scale(coupling, couplingStrength[1], couplingStrength[2]))

\* ------------------------------------------------------------------------
\* State
\* ------------------------------------------------------------------------
VARIABLES
  EXTENDED_PRIMES,  \* primes.js: the prime table, built once when the module loads
  pc,         \* generateSpiral: "idle", "loop", "returned" or "threw"
  params,     \* arguments of the current (or last) call of generateSpiral
  steps,
  dt,
  primes,     \* its local constants
  harmonicScales,
  x, y, z, u, v, w,   \* its local variables
  harmonics,
  points,
  i,
  broke,      \* the loop was left by break
  error,      \* the Error thrown by the last call, NoError if none
  earlier,    \* history: arguments and result of one earlier returned call
  projStatus, \* projectSpiral: "none", "returned" or "threw"
  projFrom,   \* whose trajectory it was given: "generateSpiral" or "caller"
  projPoints, \* its argument
  pcaData,    \* the matrix handed to PCA
  pcaFailed,  \* the try block was left by an exception
  projResult, \* the object {X, Y, Z, color, size, opacity} it returned
  sieveLimit,  \* sieveOfEratosthenes: the argument of the last call
  sieveStatus, \* "none", "returned" or "threw"
  sieveResult, \* the array it returned
  objects,     \* the heap: the parameter objects alive, by identity
  cfgRef,      \* ConfigManager: this.params, the identity of the stored object
  copies,      \* the identities of the objects getAllParams has returned
  observers,   \* this.observers
  notificationTimeout, \* this.notificationTimeout: NoTimer or the pending call
  pendingUpdates,      \* this.pendingUpdates
  burst,       \* the debounced calls the pending or last timer stands for: how many, the last value
  cfgCall,     \* the last operation on the ConfigManager and its arguments
  cfgError,    \* the Error it threw, NoError if none
  notified,    \* the observer calls made during the last operation
  stateBuffer, \* a CircularBuffer: its capacity, buffer (the slots written), head and size
  added,       \* the items added to it since it was constructed or last cleared
  isStreaming, \* MathematicalDataPipeline: this.isStreaming
  subscribers, \* this.subscribers: the entries of the Map in insertion order
  streamingStats, \* this.streamingStats: totalStates and avgStateSize
  arrays,      \* the heap: the state arrays alive, by identity
  delivered,   \* the subscriber calls made during the last operation
  pipeCall,    \* the last operation on the pipeline, whether it stored a state, whether it threw
  scheduler,   \* analysisScheduler.js: isRunning, schedulerInterval (0 for null), analysisModules,
               \* the number of analysisResults and performanceMetrics.analysisCount
  intervals,   \* the handles of the interval timers that are active
  issued,      \* the number of handles setInterval has returned
  triggered,   \* the number of runScheduledAnalysis calls the timers have made
  schedCall,   \* the last operation on the scheduler and the handle it involved
  controls,    \* setupControls: ready once it has run; isRunning is updateSpiral.isRunning;
               \* awaiting: a call of updateSpiral waits for its animation frame;
               \* threw: the last regeneration ended in the catch block
  displayed,   \* the parameters the displayed spiral was generated from
  atLastCall,  \* this.params as they were at the last call of updateSpiral
  ctlCall      \* the last handler of setupControls that ran, whether its updateSpiral call
               \* was skipped

runVars == <<pc, params, steps, dt, primes, harmonicScales, x, y, z, u, v, w, harmonics, points,
             i, broke, error>>
projVars == <<projStatus, projFrom, projPoints, pcaData, pcaFailed, projResult>>
sieveVars == <<sieveLimit, sieveStatus, sieveResult>>
\* the state of the other components, which generateSpiral and projectSpiral leave alone
configVars == <<objects, cfgRef, copies, observers, notificationTimeout, pendingUpdates, burst,
                cfgCall, cfgError, notified>>
pipeVars == <<stateBuffer, added, isStreaming, subscribers, streamingStats, arrays, delivered,
              pipeCall>>
schedVars == <<scheduler, intervals, issued, triggered, schedCall>>
ctlVars == <<controls, displayed, atLastCall, ctlCall>>
restVars == <<sieveVars, configVars, pipeVars, schedVars, ctlVars>>
vars == <<EXTENDED_PRIMES, runVars, earlier, projVars, restVars>>

\* ------------------------------------------------------------------------
\* config.js: the tables of the ConfigManager
\* ------------------------------------------------------------------------
\* the decimal literal num/den of the source text, as the nearest number of the grid
Near(num, den) == Fin(Round(num * SCALE, den))
\* a range limit, kept as the literal it is written as
Limit(num, den) == [k |-> "lit", num |-> num, den |-> den]

DEFAULT_PARAMS ==
  [alpha |-> Near(1, 10), beta |-> Near(1, 10), gamma |-> Near(1, 10), omega |-> Whole(1),
   eta |-> Near(1, 10), theta |-> Zero, delta |-> Near(2, 100),
   steps |-> Whole(15000), dt |-> Near(15, 1000)]

PARAM_RANGES ==
  [alpha |-> [min |-> Limit(1, 100), max |-> Limit(5, 10)],
   beta  |-> [min |-> Limit(1, 100), max |-> Limit(5, 10)],
   gamma |-> [min |-> Limit(1, 100), max |-> Limit(5, 10)],
   omega |-> [min |-> Limit(1, 10), max |-> Limit(5, 1)],
   eta   |-> [min |-> Limit(0, 1), max |-> Limit(1, 1)],
   theta |-> [min |-> Limit(0, 1), max |-> Limit(6283185, 1000000)],
   delta |-> [min |-> Limit(1, 100), max |-> Limit(2, 10)],
   steps |-> [min |-> Limit(1000, 1), max |-> Limit(50000, 1)],
   dt    |-> [min |-> Limit(1, 1000), max |-> Limit(1, 10)]]

PRESETS ==
  [p \in {"Default Cathedral", "Harmonic Resonance", "Chaotic Spiral", "Gentle Waves",
          "Mathematical Beauty"} |->
     CASE p = "Default Cathedral" ->
            [alpha |-> Near(1, 10), beta |-> Near(1, 10), gamma |-> Near(1, 10),
             omega |-> Whole(1), eta |-> Near(1, 10), theta |-> Zero, delta |-> Near(2, 100),
             steps |-> Whole(15000), dt |-> Near(15, 1000)]
       [] p = "Harmonic Resonance" ->
            [alpha |-> Near(5, 100), beta |-> Near(8, 100), gamma |-> Near(12, 100),
             omega |-> Whole(2), eta |-> Near(6, 10), theta |-> Near(157, 100),
             delta |-> Near(15, 1000), steps |-> Whole(12000), dt |-> Near(12, 1000)]
       [] p = "Chaotic Spiral" ->
            [alpha |-> Near(25, 100), beta |-> Near(15, 100), gamma |-> Near(3, 10),
             omega |-> Near(35, 10), eta |-> Near(8, 10), theta |-> Near(314, 100),
             delta |-> Near(25, 1000), steps |-> Whole(10000), dt |-> Near(1, 100)]
       [] p = "Gentle Waves" ->
            [alpha |-> Near(2, 100), beta |-> Near(3, 100), gamma |-> Near(2, 100),
             omega |-> Near(5, 10), eta |-> Near(2, 10), theta |-> Near(5, 10),
             delta |-> Near(15, 1000), steps |-> Whole(20000), dt |-> Near(18, 1000)]
       [] OTHER ->
            [alpha |-> Near(15, 100), beta |-> Near(11, 100), gamma |-> Near(13, 100),
             omega |-> Near(1618, 1000), eta |-> Near(382, 1000), theta |-> Near(2618, 1000),
             delta |-> Near(2, 100), steps |-> Whole(15000), dt |-> Near(15, 1000)]]

\* property names every object literal inherits from Object.prototype
ObjectPrototypeNames == {"constructor", "toString", "valueOf", "hasOwnProperty"}

\* value < limit (sign = -1) or value > limit (sign = 1): false for NaN, for
\* a value that is no number and for a limit that is undefined
BeyondLimit(a, limit, sign) ==
  CASE limit.k # "lit" -> FALSE
    [] a.k = "fin" ->
         IF Abs(a.v) > MaxProd \div limit.den THEN sign * a.v > 0
         ELSE sign * a.v * limit.den > sign * limit.num * SCALE
    [] a.k = "inf" -> sign * a.v > 0
    [] OTHER -> FALSE

\* value < range.min || value > range.max
OutsideRange(value, range) ==
  BeyondLimit(value, range.min, -1) \/ BeyondLimit(value, range.max, 1)

\* ------------------------------------------------------------------------
\* spiral.js: generateSpiral
\* ------------------------------------------------------------------------
names == <<"alpha", "beta", "gamma", "omega", "eta", "theta", "delta">>

\* upper limit of steps
StepsLimit == 100000
\* default values of the arguments steps and dt
DefaultArg(arg, default) == IF arg.k = "undef" THEN default ELSE arg

\* the Error objects thrown, by the words of their message
NoError == <<>>
ObjectError == <<"Parameters must be provided as an object">>
StepsError == <<"Steps must be an integer between 1 and 100000">>
DtError == <<"Time step dt must be a positive number <= 1">>
ParamError(n) == <<"Parameter ", n, " must be a valid number">>

\* !params || typeof params !== 'object'
NotAnObject(p) == p.type # "object"
\* !Number.isInteger(steps) || steps < 1 || steps > 100000
BadSteps(s) == ~IsInteger(s) \/ Lt(s, Whole(1)) \/ Gt(s, Whole(StepsLimit))
\* typeof dt !== 'number' || dt <= 0 || dt > 1
BadDt(d) == ~TypeofNumber(d) \/ Le(d, Zero) \/ Gt(d, One)
\* the typeof test alone
BadParamTypeOnly(a) == ~TypeofNumber(a)

\* typeof param !== 'number' || isNaN(param)
BadParam(a) == ~TypeofNumber(a) \/ IsNaN(a)

\* the forEach over [alpha, ..., delta]: the first bad parameter throws
FirstBadParam(p) ==
  LET bad == {n \in 1..Len(names) : BadParam(p[names[n]])}
  IN  IF bad = {} THEN 0 ELSE CHOOSE n \in bad : \A m \in bad : n <= m

\* some argument lies outside the range PARAM_RANGES documents for it
OutsideRanges(p, s, d) ==
  \/ OutsideRange(s, PARAM_RANGES.steps)
  \/ OutsideRange(d, PARAM_RANGES.dt)
  \/ \E n \in 1..Len(names) : OutsideRange(p[names[n]], PARAM_RANGES[names[n]])

\* the validation with the ranges of PARAM_RANGES checked as well
ValidateRanged(p, s, d) ==
  IF NotAnObject(p) THEN ObjectError
  ELSE IF BadSteps(s) THEN StepsError
  ELSE IF BadDt(d) THEN DtError
  ELSE IF FirstBadParam(p) # 0 THEN ParamError(names[FirstBadParam(p)])
  ELSE IF OutsideRanges(p, s, d) THEN <<"Parameter out of range">>
  ELSE NoError

\* the validation at the head of generateSpiral: the Error it throws, or NoError
Validate(p, s, d) ==
  IF NotAnObject(p) THEN ObjectError
  ELSE IF BadSteps(s) THEN StepsError
  ELSE IF BadDt(d) THEN DtError
  ELSE IF FirstBadParam(p) # 0 THEN ParamError(names[FirstBadParam(p)])
  ELSE NoError

\* number of prime harmonics of a run
HarmonicCount == 50
numHarmonics == Len(primes)

\* probing strength of the harmonic coupling in the velocity equations
CouplingStrength == <<1, 1000>>

\* the initial state of a run
InitialPosition == Lit(1, 10)
InitialHarmonics(n) == [j \in 1..n |-> Zero]

\* omega*i*dt
Phase(p, n, d) == Mul(Mul(p.omega, Whole(n)), d)
phi_dot(p, n, d) == Mul(Neg(p.omega), MathSin(Phase(p, n, d)))

\* dharmonics[j] (j counted from 0), from the harmonics at the start of the step
dharmonic(p, n, d, h, j) ==
  LET prime == primes[j + 1]
      scale == harmonicScales[j + 1]
      isEven == j % 2 = 0
      phi == Add(MathCos(Phase(p, n, d)), Mul(p.eta, MathCos(p.theta)))
      phaseShift == Div(Mul(Whole(j), PI), Whole(numHarmonics))
      angle == Add(Mul(Mul(Whole(prime), PI), phi), phaseShift)
      harmonicDriver == IF isEven THEN MathSin(angle) ELSE MathCos(angle)
      couplingTerm == IF j > 0 THEN Scale(Mul(h[j], h[j + 1]), 1, 10000) ELSE Zero
  IN  MathTanh(Add(Add(MulDec(harmonicDriver, scale), Neg(Mul(p.delta, h[j + 1]))), couplingTerm))

\* the state vector without its last velocity component
PointShort(px, py, pz, pu, pv, pw, h) == <<px, py, pz, pu, pv>> \o h

\* the state vector appended by a step
Point(px, py, pz, pu, pv, pw, h) == <<px, py, pz, pu, pv, pw>> \o h

\* the instability check looking at the position only
UnstablePosition(px, py, pz, pu, pv, pw, h) ==
  ~IsFinite(px) \/ ~IsFinite(py) \/ ~IsFinite(pz)

\* !isFinite(x) || ... || harmonics.some(h => !isFinite(h))
Unstable(px, py, pz, pu, pv, pw, h) ==
  \/ ~IsFinite(px) \/ ~IsFinite(py) \/ ~IsFinite(pz)
  \/ ~IsFinite(pu) \/ ~IsFinite(pv) \/ ~IsFinite(pw)
  \/ \E j \in DOMAIN h : ~IsFinite(h[j])

\* i <= steps in place of i < steps
LoopContinuesInclusive(n, s) == Le(Whole(n), s)

\* the loop condition i < steps
LoopContinues(n, s) == Lt(Whole(n), s)

\* ------------------------------------------------------------------------
\* Arguments the callers pass
\* ------------------------------------------------------------------------
DefaultParams ==
  [type |-> "object", alpha |-> Lit(1, 10), beta |-> Lit(1, 10), gamma |-> Lit(1, 10),
   omega |-> One, eta |-> Lit(1, 10), theta |-> Zero, delta |-> Lit(5, 100)]
\* null, and a value that is not an object
NullParams == [n \in {"alpha", "beta", "gamma", "omega", "eta", "theta", "delta"} |-> Undefined]
                @@ [type |-> "null"]
\* {}
EmptyParams == [NullParams EXCEPT !.type = "object"]

With(p, n, val) == [p EXCEPT ![n] = val]
NameSet == {names[n] : n \in 1..Len(names)}

\* negative damping near the top of the finite range: the velocities overflow
Diverging == With(With(DefaultParams, "alpha", Fin(-MaxMag)), "omega", Whole(2))
\* the calls of generateSpiral: a value that is not an object, values a
\* caller may leave in a field (missing, NaN, an infinity, a string), a
\* driving amplitude near the top of the finite range, steps and dt in and
\* out of their ranges
Inputs ==
  LET NumberParams == [NullParams EXCEPT !.type = "number"]
      Overdriven == With(DefaultParams, "eta", Fin(MaxMag))
      ParamsInputs ==
        {DefaultParams, NullParams, NumberParams, EmptyParams, Diverging, Overdriven,
         With(With(DefaultParams, "beta", Str), "theta", NaN)}
        \cup {With(DefaultParams, n, b) : n \in NameSet, b \in {Undefined, NaN, PInf}}
        \cup {With(DefaultParams, n, b) : n \in {"alpha", "delta"}, b \in {Str, NInf}}
      StepsInputs ==
        {Whole(n) : n \in 0..MaxSteps}
        \cup {Whole(-1), Whole(StepsLimit + 1), Lit(15, 10), NaN, PInf, Str}
      DtInputs ==
        {Lit(2, 100), One, Zero, Lit(-1, 10), Lit(101, 100), NaN, PInf, Str, Undefined}
  IN  (ParamsInputs \X {Whole(MaxSteps)} \X {One})
      \cup ({DefaultParams} \X StepsInputs \X {One})
      \cup ({Diverging} \X {Whole(MaxSteps - 1)} \X {One})
      \cup ({DefaultParams} \X {Whole(2)} \X DtInputs)
      \cup {<<NullParams, NaN, Str>>, <<With(DefaultParams, "alpha", NaN), Whole(0), One>>,
            <<EmptyParams, Whole(2), Zero>>, <<EmptyParams, Whole(2), Lit(2, 100)>>}

\* ------------------------------------------------------------------------
\* Initial state
\* ------------------------------------------------------------------------
NoResult == [X |-> <<>>, Y |-> <<>>, Z |-> <<>>, color |-> <<>>, size |-> <<>>, opacity |-> <<>>]

\* mathDataPipeline.js: the length of a state
StateSize == 56

\* config.js: the state a new ConfigManager starts from
Null == [k |-> "null", v |-> 0]
NoTimer == [set |-> FALSE, name |-> "", value |-> Null, text |-> ""]

Init ==
  /\ EXTENDED_PRIMES = sieveOfEratosthenes(PrimeLimit)
  /\ pc = "idle"
  /\ params = NullParams
  /\ steps = Zero
  /\ dt = Zero
  /\ primes = <<>>
  /\ harmonicScales = <<>>
  /\ x = Undefined /\ y = Undefined /\ z = Undefined
  /\ u = Undefined /\ v = Undefined /\ w = Undefined
  /\ harmonics = <<>>
  /\ points = <<>>
  /\ i = 0
  /\ broke = FALSE
  /\ error = NoError
  /\ earlier = [set |-> FALSE, current |-> FALSE, params |-> NullParams,
                steps |-> Zero, dt |-> Zero, points |-> <<>>]
  /\ projStatus = "none"
  /\ projFrom = "none"
  /\ projPoints = <<>>
  /\ pcaData = <<>>
  /\ pcaFailed = FALSE
  /\ projResult = NoResult
  /\ sieveLimit = PrimeLimit
  /\ sieveStatus = "returned"
  /\ sieveResult = EXTENDED_PRIMES
  /\ objects = (1 :> DEFAULT_PARAMS)
  /\ cfgRef = 1
  /\ copies = {}
  /\ observers = <<>>
  /\ notificationTimeout = NoTimer
  /\ pendingUpdates = {}
  /\ burst = [calls |-> 0, last |-> ""]
  /\ cfgCall = [op |-> "none", name |-> "", value |-> Null, text |-> ""]
  /\ cfgError = NoError
  /\ notified = <<>>
  /\ stateBuffer = [capacity |-> 1000, buffer |-> <<>>, head |-> 0, size |-> 0]
  /\ added = <<>>
  /\ isStreaming = FALSE
  /\ subscribers = <<>>
  /\ streamingStats = [totalStates |-> 0, avgStateSize |-> 0]
  /\ arrays = (1 :> [length |-> StateSize, v |-> 0])
  /\ delivered = <<>>
  /\ pipeCall = [op |-> "none", state |-> 0, stored |-> FALSE, threw |-> FALSE]
  /\ scheduler = [isRunning |-> FALSE, schedulerInterval |-> 0,
                  analysisModules |-> {"convergence", "derivatives", "statistics", "stability"},
                  analysisResults |-> 0, analysisCount |-> 0]
  /\ intervals = {}
  /\ issued = 0
  /\ triggered = 0
  /\ schedCall = [op |-> "none", handle |-> 0]
  /\ controls = [ready |-> FALSE, isRunning |-> FALSE, awaiting |-> FALSE, threw |-> FALSE]
  /\ displayed = Null
  /\ atLastCall = Null
  /\ ctlCall = [op |-> "none", skipped |-> FALSE]

\* ------------------------------------------------------------------------
\* generateSpiral, step by step
\* ------------------------------------------------------------------------
\* the state of the previous run kept where one exists (variables hoisted out
\* of the function)
BeginRunStale ==
  /\ primes' = SliceTo(EXTENDED_PRIMES, HarmonicCount)
  /\ harmonicScales' = [j \in 1..Len(primes') |->
                          getHarmonicWeight(primes'[j], j - 1, Len(primes'))]
  /\ x' = IF pc = "returned" THEN x ELSE InitialPosition
  /\ y' = IF pc = "returned" THEN y ELSE InitialPosition
  /\ z' = IF pc = "returned" THEN z ELSE InitialPosition
  /\ u' = IF pc = "returned" THEN u ELSE Zero
  /\ v' = IF pc = "returned" THEN v ELSE Zero
  /\ w' = IF pc = "returned" THEN w ELSE Zero
  /\ harmonics' = IF pc = "returned" THEN harmonics ELSE InitialHarmonics(Len(primes'))
  /\ points' = <<>>
  /\ i' = 0
  /\ broke' = FALSE

\* primes = EXTENDED_PRIMES.slice(0, 50); harmonicScales = primes.map(...);
\* let [x,y,z,u,v,w] = [0.1,0.1,0.1,0,0,0]; harmonics = zeros; points = []
BeginRun ==
  /\ primes' = SliceTo(EXTENDED_PRIMES, HarmonicCount)
  /\ harmonicScales' = [j \in 1..Len(primes') |->
                          getHarmonicWeight(primes'[j], j - 1, Len(primes'))]
  /\ x' = InitialPosition /\ y' = InitialPosition /\ z' = InitialPosition
  /\ u' = Zero /\ v' = Zero /\ w' = Zero
  /\ harmonics' = InitialHarmonics(Len(primes'))
  /\ points' = <<>>
  /\ i' = 0
  /\ broke' = FALSE

\* a call that throws leaves no local variable behind
NoRun ==
  /\ primes' = <<>>
  /\ harmonicScales' = <<>>
  /\ x' = Undefined /\ y' = Undefined /\ z' = Undefined
  /\ u' = Undefined /\ v' = Undefined /\ w' = Undefined
  /\ harmonics' = <<>>
  /\ points' = <<>>
  /\ i' = 0
  /\ broke' = FALSE

\* entry of generateSpiral(p, stepsArg, dtArg): defaults, validation, initial state
Call(p, stepsArg, dtArg) ==
  /\ pc \in {"idle", "returned", "threw"}
  /\ LET s == DefaultArg(stepsArg, Whole(20000))
         d == DefaultArg(dtArg, Lit(1, 100))
         err == Validate(p, s, d)
     IN  /\ params' = p
         /\ steps' = s
         /\ dt' = d
         /\ error' = err
         /\ IF err # NoError
            THEN pc' = "threw" /\ NoRun
            ELSE pc' = "loop" /\ BeginRun
  /\ earlier' = [earlier EXCEPT !.current = FALSE]
  /\ projStatus' = "none"
  /\ projFrom' = "none"
  /\ projPoints' = <<>>
  /\ pcaData' = <<>>
  /\ pcaFailed' = FALSE
  /\ projResult' = NoResult
  /\ UNCHANGED <<EXTENDED_PRIMES, restVars>>

\* the derivatives of a step, all from the state at its start (n is the index i)
Derivatives(p, n, d, px, py, pz, pu, pv, pw, h, harmonicCoupling, pd) ==
  [dx |-> pu,
   dy |-> pv,
   dz |-> pw,
   du |-> Add(Add(Add(Mul(Neg(p.alpha), pu), Mul(MathCos(py), pv)), pd), harmonicCoupling),
   dv |-> Add(Add(Add(Mul(Neg(p.beta), pv), Mul(MathCos(pz), pw)), pd),
              Scale(harmonicCoupling, 8, 10)),
   dw |-> Add(Add(Add(Mul(Neg(p.gamma), pw), Mul(MathCos(px), pu)), pd),
              Scale(harmonicCoupling, 12, 10)),
   dharmonics |-> [j \in 1..numHarmonics |-> dharmonic(p, n, d, h, j - 1)]]

\* Euler step: x += dx*dt; ...; harmonics[j] += dharmonics[j] * dt
Euler(d, px, py, pz, pu, pv, pw, h, deriv) ==
  [x |-> Add(px, Mul(deriv.dx, d)),
   y |-> Add(py, Mul(deriv.dy, d)),
   z |-> Add(pz, Mul(deriv.dz, d)),
   u |-> Add(pu, Mul(deriv.du, d)),
   v |-> Add(pv, Mul(deriv.dv, d)),
   w |-> Add(pw, Mul(deriv.dw, d)),
   harmonics |-> [j \in 1..numHarmonics |-> Add(h[j], Mul(deriv.dharmonics[j], d))]]

\* the loop body advancing the velocities first and the positions from the
\* velocities already advanced
AdvancedInPlace ==
  LET next == Euler(dt, x, y, z, u, v, w, harmonics,
                    Derivatives(params, i, dt, x, y, z, u, v, w, harmonics,
                                calculateHarmonicCoupling(harmonics, primes, Mul(Whole(i), dt),
                                                          CouplingStrength),
                                phi_dot(params, i, dt)))
  IN  [next EXCEPT !.x = Add(x, Mul(next.u, dt)),
                   !.y = Add(y, Mul(next.v, dt)),
                   !.z = Add(z, Mul(next.w, dt))]

\* the state after the loop body has run once more from the current state
Advanced ==
  Euler(dt, x, y, z, u, v, w, harmonics,
        Derivatives(params, i, dt, x, y, z, u, v, w, harmonics,
                    calculateHarmonicCoupling(harmonics, primes, Mul(Whole(i), dt),
                                              CouplingStrength),
                    phi_dot(params, i, dt)))

\* the push placed at the head of the loop body: the state the step starts from
PushBefore(next) ==
  /\ points' = Append(points, Point(x, y, z, u, v, w, harmonics))
  /\ x' = next.x /\ y' = next.y /\ z' = next.z
  /\ u' = next.u /\ v' = next.v /\ w' = next.w
  /\ harmonics' = next.harmonics
  /\ broke' = Unstable(x', y', z', u', v', w', harmonics')
  /\ i' = IF broke' THEN i ELSE i + 1

\* points.push([...]); if (unstable) break; else i++
Push(next) ==
  /\ x' = next.x /\ y' = next.y /\ z' = next.z
  /\ u' = next.u /\ v' = next.v /\ w' = next.w
  /\ harmonics' = next.harmonics
  /\ points' = Append(points, Point(x', y', z', u', v', w', harmonics'))
  /\ broke' = Unstable(x', y', z', u', v', w', harmonics')
  /\ i' = IF broke' THEN i ELSE i + 1

\* one iteration of the integration loop
Step ==
  /\ pc = "loop"
  /\ ~broke
  /\ LoopContinues(i, steps)
  /\ \E next \in {Advanced} : Push(next)
  /\ UNCHANGED <<EXTENDED_PRIMES, pc, params, steps, dt, primes, harmonicScales, error, earlier,
                 projVars, restVars>>

\* return points; the history keeps the call it already holds, or takes this
\* one if its arguments are among the watched ones
Return ==
  /\ pc = "loop"
  /\ broke \/ ~LoopContinues(i, steps)
  /\ pc' = "returned"
  /\ \E keep \in BOOLEAN :
       \* the calls whose result the history may keep for comparison with a later call
       LET Watched == {<<DefaultParams, Whole(MaxSteps), One>>,
                       <<Diverging, Whole(MaxSteps), One>>,
                       <<With(DefaultParams, "alpha", PInf), Whole(MaxSteps), One>>,
                       <<DefaultParams, Whole(2), NaN>>}
       IN
       earlier' = IF (keep /\ earlier.set) \/ <<params, steps, dt>> \notin Watched
                  THEN earlier
                  ELSE [set |-> TRUE, current |-> TRUE, params |-> params,
                        steps |-> steps, dt |-> dt, points |-> points]
  /\ UNCHANGED <<EXTENDED_PRIMES, params, steps, dt, primes, harmonicScales, x, y, z, u, v, w,
                 harmonics, points, i, broke, error, projVars, restVars>>

\* ------------------------------------------------------------------------
\* projection.js: projectSpiral
\* ------------------------------------------------------------------------
\* p[idx] for an array p (idx counted from 0): undefined beyond its length
At(p, idx) == IF idx < Len(p) THEN p[idx + 1] ELSE Undefined

\* points wider than this are sampled before PCA
HighDimensional == 50
\* every SampleStride-th harmonic is kept, after the BaseCoordinates first entries
BaseCoordinates == 6
SampleStride == 5
\* scale of the projected coordinates on the sampled path
Visibility == 10

\* the sampling that starts one stride later: slice(0, 6), then indices 11, 16, ...
SampledLate(point) ==
  LET kept == IF Len(point) <= BaseCoordinates + SampleStride THEN 0
              ELSE (Len(point) - BaseCoordinates - 1) \div SampleStride
  IN  SubSeq(point, 1, Min(BaseCoordinates, Len(point)))
        \o [n \in 1..kept |-> point[BaseCoordinates + SampleStride * n + 1]]

\* sampled = point.slice(0, 6); for (i = 6; i < point.length; i += 5) sampled.push(point[i])
Sampled(point) ==
  LET kept == IF Len(point) <= BaseCoordinates THEN 0
              ELSE (Len(point) - BaseCoordinates + SampleStride - 1) \div SampleStride
  IN  SubSeq(point, 1, Min(BaseCoordinates, Len(point)))
        \o [n \in 1..kept |-> point[BaseCoordinates + SampleStride * (n - 1) + 1]]

\* pca.predict(data, {nComponents: 3}).to2DArray(): one row of three principal
\* coordinates per row of data; a coordinate is kept as the row and component
\* it stands for and the factor it was multiplied by
PcaPredict(data) ==
  [n \in 1..Len(data) |->
     [c \in 1..3 |-> [k |-> "pca", row |-> n, component |-> c - 1, times |-> 1]]]
Times(coordinate, factor) == [coordinate EXCEPT !.times = @ * factor]

\* harmonicSum of a point: for (i = 6; i < p.length; i++) sum += (p[i] || 0) * Math.cos(i * 0.1);
\* return sum * 0.1
HarmonicSum(p) ==
  Scale(ForLoop(LAMBDA idx, sum :
                  Add(sum, Mul(OrZero(At(p, idx)), MathCos(Scale(Whole(idx), 1, 10)))),
                6, Len(p), Zero),
        1, 10)

\* p[5 + n] without the || 0
HarmonicRaw(p, n) == At(p, 5 + n)

\* h1 .. h5 of a point
Harmonic(p, n) == OrZero(At(p, 5 + n))

ColorOf(p, harmonicSum) ==
  << Rem(Add(Harmonic(p, 1), Scale(harmonicSum, 5, 10)), One),
     Rem(Add(Harmonic(p, 2), Scale(harmonicSum, 3, 10)), One),
     Rem(Add(Harmonic(p, 3), Scale(harmonicSum, 7, 10)), One) >>
SizeOf(p, harmonicSum) ==
  LET MathAbs(a) == CASE a.k = "fin" -> Fin(Abs(a.v))
                      [] a.k = "inf" -> PInf
                      [] OTHER -> NaN
  IN  Add(Mul(MathAbs(Add(Harmonic(p, 4), Scale(harmonicSum, 2, 10))), Whole(2)), One)
OpacityOf(p, harmonicSum) ==
  Add(Lit(5, 10), Scale(MathTanh(Add(Harmonic(p, 5), Scale(harmonicSum, 1, 10))), 5, 10))

\* the fallback taking points[0] for X in place of the first column
ProjectionFirstPoint(T, tryFailed) ==
  LET high == Len(T[1]) > HighDimensional
      factor == IF high THEN Visibility ELSE 1
      coordinate(n, c) == IF tryFailed THEN At(T[n], c)
                          ELSE Times(PcaPredict(T)[n][c + 1], factor)
  IN  [X |-> IF tryFailed THEN T[1] ELSE [n \in 1..Len(T) |-> coordinate(n, 0)],
       Y |-> [n \in 1..Len(T) |-> coordinate(n, 1)],
       Z |-> [n \in 1..Len(T) |-> coordinate(n, 2)],
       color |-> [n \in 1..Len(T) |-> ColorOf(T[n], HarmonicSum(T[n]))],
       size |-> [n \in 1..Len(T) |-> SizeOf(T[n], HarmonicSum(T[n]))],
       opacity |-> [n \in 1..Len(T) |-> OpacityOf(T[n], HarmonicSum(T[n]))]]

\* the object projectSpiral returns for the trajectory T; tryFailed tells whether
\* the try block was left by an exception
Projection(T, tryFailed) ==
  LET high == Len(T[1]) > HighDimensional
      factor == IF high THEN Visibility ELSE 1
      coordinate(n, c) == IF tryFailed THEN At(T[n], c)
                          ELSE Times(PcaPredict(T)[n][c + 1], factor)
  IN  [X |-> [n \in 1..Len(T) |-> coordinate(n, 0)],
       Y |-> [n \in 1..Len(T) |-> coordinate(n, 1)],
       Z |-> [n \in 1..Len(T) |-> coordinate(n, 2)],
       color |-> [n \in 1..Len(T) |-> ColorOf(T[n], HarmonicSum(T[n]))],
       size |-> [n \in 1..Len(T) |-> SizeOf(T[n], HarmonicSum(T[n]))],
       opacity |-> [n \in 1..Len(T) |-> OpacityOf(T[n], HarmonicSum(T[n]))]]

\* the matrix the try block hands to PCA
PcaInput(T) ==
  IF Len(T[1]) > HighDimensional THEN [n \in 1..Len(T) |-> Sampled(T[n])] ELSE T

\* projectSpiral without the catch block: an exception of the try block leaves it
projectSpiralNoCatch(T, from, tryFailed) ==
  /\ projFrom' = from
  /\ projPoints' = T
  /\ IF Len(T) = 0 \/ tryFailed
     THEN /\ projStatus' = "threw"
          /\ pcaData' = IF Len(T) = 0 THEN <<>> ELSE PcaInput(T)
          /\ pcaFailed' = (tryFailed /\ Len(T) # 0)
          /\ projResult' = NoResult
     ELSE /\ projStatus' = "returned"
          /\ pcaData' = PcaInput(T)
          /\ pcaFailed' = FALSE
          /\ projResult' = Projection(T, FALSE)

\* projectSpiral returning an empty result for an empty trajectory
projectSpiralGuarded(T, from, tryFailed) ==
  /\ projFrom' = from
  /\ projPoints' = T
  /\ projStatus' = "returned"
  /\ pcaData' = IF Len(T) = 0 THEN <<>> ELSE PcaInput(T)
  /\ pcaFailed' = (tryFailed /\ Len(T) # 0)
  /\ projResult' = IF Len(T) = 0 THEN NoResult ELSE Projection(T, tryFailed)

\* projectSpiral(T), as one step; points[0].length throws on an empty array
projectSpiral(T, from, tryFailed) ==
  /\ projFrom' = from
  /\ projPoints' = T
  /\ IF Len(T) = 0
     THEN /\ projStatus' = "threw"
          /\ pcaData' = <<>>
          /\ pcaFailed' = FALSE
          /\ projResult' = NoResult
     ELSE /\ projStatus' = "returned"
          /\ pcaData' = PcaInput(T)
          /\ pcaFailed' = tryFailed
          /\ projResult' = Projection(T, tryFailed)

\* the trajectory returned by generateSpiral is projected
ProjectTrajectory ==
  /\ pc = "returned"
  /\ projStatus = "none"
  /\ \E tryFailed \in BOOLEAN : projectSpiral(points, "generateSpiral", tryFailed)
  /\ UNCHANGED <<EXTENDED_PRIMES, runVars, earlier, restVars>>

\* trajectories handed to projectSpiral by other callers
Row(width, h) == [n \in 1..width |-> IF n <= 3 THEN Lit(n, 10) ELSE IF n <= 6 THEN Zero ELSE h]
Trajectories ==
  { <<>>,
    << Row(12, Lit(3, 10)) >>,
    << Row(12, Lit(3, 10)), Row(12, Lit(-12, 10)) >>,
    << Row(12, PInf), Row(12, NInf), Row(12, NaN) >>,
    << Row(56, Zero), Row(56, Zero) >>,
    << Row(50, One), Row(50, Lit(-5, 10)) >>,
    << Row(51, One), Row(51, Lit(-5, 10)) >>,
    << Row(12, Lit(3, 10)), Row(7, One) >>,
    << Row(56, Lit(3, 10)), Row(3, Zero), Row(12, One) >>,
    << Row(3, Zero), Row(56, Lit(3, 10)) >> }

\* another caller projects a trajectory of its own; the last run is no longer held
ProjectOther(T) ==
  /\ pc \in {"idle", "returned", "threw"}
  /\ \E tryFailed \in BOOLEAN : projectSpiral(T, "caller", tryFailed)
  /\ pc' = "idle"
  /\ params' = NullParams
  /\ steps' = Zero
  /\ dt' = Zero
  /\ error' = NoError
  /\ NoRun
  /\ earlier' = [earlier EXCEPT !.current = FALSE]
  /\ UNCHANGED <<EXTENDED_PRIMES, restVars>>

\* ------------------------------------------------------------------------
\* Specification
\* ------------------------------------------------------------------------
Next ==
  \/ \E inp \in Inputs : Call(inp[1], inp[2], inp[3])
  \/ Step
  \/ Return
  \/ ProjectTrajectory
  \/ \E T \in Trajectories : ProjectOther(T)

Spec == Init /\ [][Next]_vars

\* ------------------------------------------------------------------------
\* config.js: ConfigManager
\* ------------------------------------------------------------------------
\* most objects getAllParams hands out, most observers registered
MaxCopies == 2
MaxObservers == 2
\* the debounced calls of one burst are counted up to this number
MaxBurst == 2

\* validateParam without the comparison with range.min and range.max
validateParamTypeOnly(name, value) ==
  IF name \notin DOMAIN PARAM_RANGES \cup ObjectPrototypeNames
  THEN <<"Unknown parameter: ", name>>
  ELSE IF ~TypeofNumber(value) \/ IsNaN(value)
  THEN <<"Parameter ", name, " must be a number">>
  ELSE NoError

\* validateParam(name, value): the Error it throws, or NoError.  range is
\* PARAM_RANGES[name]: the range, an inherited member (a function: truthy,
\* its min and max undefined), or undefined
validateParam(name, value) ==
  LET range == IF name \in DOMAIN PARAM_RANGES THEN PARAM_RANGES[name]
               ELSE [min |-> Undefined, max |-> Undefined]
  IN  IF name \notin DOMAIN PARAM_RANGES \cup ObjectPrototypeNames
      THEN <<"Unknown parameter: ", name>>
      ELSE IF ~TypeofNumber(value) \/ IsNaN(value)
      THEN <<"Parameter ", name, " must be a number">>
      ELSE IF OutsideRange(value, range)
      THEN <<"Parameter ", name, " must be between min and max">>
      ELSE NoError

\* object[name] = value
Assign(object, name, value) ==
  [n \in DOMAIN object \cup {name} |-> IF n = name THEN value ELSE object[n]]

\* the stored parameters
Stored == objects[cfgRef]

\* one observer call: callback(name, value, this.params [, updates]); stored
\* is the contents of this.params at the call
ObserverCall(observer, name, value, text, updates, stored) ==
  [observer |-> observer, name |-> name, value |-> value, text |-> text, updates |-> updates,
   params |-> stored]

\* notifyObservers(paramName, value): each callback in turn, its exceptions caught
notifyObservers(paramName, value) ==
  notified' = [n \in 1..Len(observers) |->
                 ObserverCall(observers[n], paramName, value, "", {}, objects'[cfgRef'])]

\* setParam(name, value)
setParam(name, value) ==
  /\ cfgCall' = [op |-> "setParam", name |-> name, value |-> value, text |-> ""]
  /\ cfgError' = validateParam(name, value)
  /\ UNCHANGED <<cfgRef, copies, observers, notificationTimeout, pendingUpdates, burst>>
  /\ IF cfgError' # NoError
     THEN /\ notified' = <<>>
          /\ UNCHANGED objects
     ELSE /\ objects' = [objects EXCEPT ![cfgRef] = Assign(@, name, value)]
          /\ notifyObservers(name, value)

\* the first least identity not in use
FreshObject == CHOOSE id \in 1..(Cardinality(DOMAIN objects) + 1) : id \notin DOMAIN objects

\* getAllParams returning this.params itself
getAllParamsShared ==
  /\ Cardinality(copies) < MaxCopies
  /\ cfgCall' = [op |-> "getAllParams", name |-> "", value |-> Null, text |-> ""]
  /\ cfgError' = NoError
  /\ notified' = <<>>
  /\ copies' = copies \cup {cfgRef}
  /\ UNCHANGED <<objects, cfgRef, observers, notificationTimeout, pendingUpdates, burst>>

\* getAllParams(): return { ...this.params }
getAllParams ==
  /\ Cardinality(copies) < MaxCopies
  /\ cfgCall' = [op |-> "getAllParams", name |-> "", value |-> Null, text |-> ""]
  /\ cfgError' = NoError
  /\ notified' = <<>>
  /\ objects' = (FreshObject :> Stored) @@ objects
  /\ copies' = copies \cup {FreshObject}
  /\ UNCHANGED <<cfgRef, observers, notificationTimeout, pendingUpdates, burst>>

\* the caller changes a property of an object getAllParams returned to it
ModifyCopy(copy, name, value) ==
  /\ copy \in copies
  /\ cfgCall' = [op |-> "modify", name |-> name, value |-> value, text |-> ""]
  /\ cfgError' = NoError
  /\ notified' = <<>>
  /\ objects' = [objects EXCEPT ![copy] = Assign(@, name, value)]
  /\ UNCHANGED <<cfgRef, copies, observers, notificationTimeout, pendingUpdates, burst>>

\* Object.entries(PRESETS[presetName]): those of the preset, none for an inherited member
EntriesOf(presetName) ==
  IF presetName \in DOMAIN PRESETS THEN PRESETS[presetName] ELSE <<>>

\* a debounce that keeps the pending timer, and with it the value of the first call
debouncedNotifyObserversKeepFirst(paramName, text) ==
  /\ pendingUpdates' = pendingUpdates \cup {paramName}
  /\ notificationTimeout' = IF notificationTimeout.set THEN notificationTimeout
                            ELSE [set |-> TRUE, name |-> paramName, value |-> Str, text |-> text]
  /\ burst' = [calls |-> IF notificationTimeout.set THEN Min(burst.calls + 1, MaxBurst) ELSE 1,
               last |-> text]

\* debouncedNotifyObservers(paramName, value): the pending timer is replaced
debouncedNotifyObservers(paramName, text) ==
  /\ pendingUpdates' = pendingUpdates \cup {paramName}
  /\ notificationTimeout' = [set |-> TRUE, name |-> paramName, value |-> Str, text |-> text]
  /\ burst' = [calls |-> IF notificationTimeout.set THEN Min(burst.calls + 1, MaxBurst) ELSE 1,
               last |-> text]

\* loadPreset(presetName): the lookup of the name, which finds a preset, an
\* inherited member or undefined; the first forEach, which throws the Error
\* of the first entry that fails validation; the second forEach, which
\* assigns every entry; validateSystemStability only warns
loadPreset(presetName) ==
  LET preset == EntriesOf(presetName)
      bad == {n \in DOMAIN preset : validateParam(n, preset[n]) # NoError}
      first == CHOOSE n \in bad : TRUE
  IN  /\ cfgCall' = [op |-> "loadPreset", name |-> "", value |-> Str, text |-> presetName]
      /\ notified' = <<>>
      /\ cfgError' = IF presetName \notin DOMAIN PRESETS \cup ObjectPrototypeNames
                     THEN <<"Unknown preset: ", presetName>>
                     ELSE IF bad # {} THEN validateParam(first, preset[first])
                     ELSE NoError
      /\ IF cfgError' # NoError
         THEN UNCHANGED <<objects, notificationTimeout, pendingUpdates, burst>>
         ELSE /\ objects' = [objects EXCEPT ![cfgRef] =
                               [n \in DOMAIN @ \cup DOMAIN preset |->
                                  IF n \in DOMAIN preset THEN preset[n] ELSE @[n]]]
              /\ debouncedNotifyObservers("preset", presetName)
      /\ UNCHANGED <<cfgRef, copies, observers>>

\* the timer callback passing the values of the preset it announces
TimerFiresWithPreset ==
  /\ notificationTimeout.set
  /\ cfgCall' = [op |-> "timer", name |-> notificationTimeout.name, value |-> Str,
                 text |-> notificationTimeout.text]
  /\ cfgError' = NoError
  /\ notified' = [n \in 1..Len(observers) |->
                    ObserverCall(observers[n], notificationTimeout.name, notificationTimeout.value,
                                 notificationTimeout.text, pendingUpdates,
                                 EntriesOf(notificationTimeout.text))]
  /\ pendingUpdates' = {}
  /\ notificationTimeout' = NoTimer
  /\ UNCHANGED <<objects, cfgRef, copies, observers, burst>>

\* the debounce timer fires: every observer is called with the arguments of the
\* call that set the timer, with this.params and with the names gathered in
\* pendingUpdates
TimerFires ==
  /\ notificationTimeout.set
  /\ cfgCall' = [op |-> "timer", name |-> notificationTimeout.name, value |-> Str,
                 text |-> notificationTimeout.text]
  /\ cfgError' = NoError
  /\ notified' = [n \in 1..Len(observers) |->
                    ObserverCall(observers[n], notificationTimeout.name, notificationTimeout.value,
                                 notificationTimeout.text, pendingUpdates, objects[cfgRef])]
  /\ pendingUpdates' = {}
  /\ notificationTimeout' = NoTimer
  /\ UNCHANGED <<objects, cfgRef, copies, observers, burst>>

\* reset(): this.params = { ...DEFAULT_PARAMS }, a new object; the old one
\* stays on the heap only while a caller holds it
reset ==
  /\ cfgCall' = [op |-> "reset", name |-> "", value |-> Null, text |-> ""]
  /\ cfgError' = NoError
  /\ IF cfgRef \in copies
     THEN /\ cfgRef' = FreshObject
          /\ objects' = (FreshObject :> DEFAULT_PARAMS) @@ objects
     ELSE /\ cfgRef' = cfgRef
          /\ objects' = [objects EXCEPT ![cfgRef] = DEFAULT_PARAMS]
  /\ notifyObservers("reset", Null)
  /\ UNCHANGED <<copies, observers, notificationTimeout, pendingUpdates, burst>>

\* addObserver(callback)
addObserver(callback) ==
  /\ Len(observers) < MaxObservers
  /\ cfgCall' = [op |-> "addObserver", name |-> "", value |-> Null, text |-> ""]
  /\ cfgError' = NoError
  /\ notified' = <<>>
  /\ observers' = Append(observers, callback)
  /\ UNCHANGED <<objects, cfgRef, copies, notificationTimeout, pendingUpdates, burst>>

\* removeObserver(callback): this.observers.filter(obs => obs !== callback)
removeObserver(callback) ==
  /\ cfgCall' = [op |-> "removeObserver", name |-> "", value |-> Null, text |-> ""]
  /\ cfgError' = NoError
  /\ notified' = <<>>
  /\ observers' = SelectSeq(observers, LAMBDA obs : obs # callback)
  /\ UNCHANGED <<objects, cfgRef, copies, notificationTimeout, pendingUpdates, burst>>

\* the ConfigManager and its observers
ConfigNext ==
  /\ \/ \E inp \in {<<"alpha", Near(3, 10)>>, <<"alpha", Zero>>, <<"alpha", NaN>>,
                     <<"alpha", Str>>, <<"omega", Whole(6)>>, <<"steps", Near(10005, 10)>>,
                     <<"steps", PInf>>, <<"zeta", Near(3, 10)>>,
                     <<"constructor", Near(3, 10)>>} :
          setParam(inp[1], inp[2])
     \/ \E presetName \in DOMAIN PRESETS \cup {"Golden", "constructor"} :
          loadPreset(presetName)
     \/ reset
     \/ TimerFires
     \/ \E callback \in 1..MaxObservers : addObserver(callback)
     \/ \E callback \in 1..MaxObservers : removeObserver(callback)
  /\ UNCHANGED <<EXTENDED_PRIMES, runVars, earlier, projVars, sieveVars, pipeVars, schedVars, ctlVars>>

ConfigSpec == Init /\ [][ConfigNext]_vars

\* the ConfigManager and the callers that hold objects getAllParams returned

CopyNext ==
  /\ \/ \E inp \in {<<"alpha", Near(3, 10)>>, <<"alpha", NaN>>} : setParam(inp[1], inp[2])
     \/ loadPreset("Chaotic Spiral")
     \/ reset
     \/ getAllParams
     \/ \E copy \in copies : \E inp \in {<<"alpha", Near(4, 10)>>, <<"steps", Whole(1)>>} :
          ModifyCopy(copy, inp[1], inp[2])
  /\ UNCHANGED <<EXTENDED_PRIMES, runVars, earlier, projVars, sieveVars, pipeVars, schedVars, ctlVars>>

CopySpec == Init /\ [][CopyNext]_vars

\* ------------------------------------------------------------------------
\* primes.js: calls of the prime generator
\* ------------------------------------------------------------------------
\* largest limit the modelled callers pass
MaxLimit == 110

\* const primes = sieveOfEratosthenes(maxPrime); new Array(limit + 1) throws a
\* RangeError for a negative length
CallSieve(limit) ==
  /\ sieveLimit' = limit
  /\ IF limit + 1 < 0
     THEN sieveStatus' = "threw" /\ sieveResult' = <<>>
     ELSE sieveStatus' = "returned" /\ sieveResult' = sieveOfEratosthenes(limit)
  /\ UNCHANGED <<EXTENDED_PRIMES, runVars, earlier, projVars, configVars, pipeVars, schedVars, ctlVars>>

PrimesNext == \E limit \in (-4)..MaxLimit : CallSieve(limit)
PrimesSpec == Init /\ [][PrimesNext]_vars

\* ------------------------------------------------------------------------
\* mathDataPipeline.js: CircularBuffer
\* ------------------------------------------------------------------------
\* the largest capacity constructed, the most items added between two clears
MaxCapacity == 3
MaxAdds == 5

\* this.buffer[index]: undefined for a slot never written
Slot(index) ==
  IF index \in DOMAIN stateBuffer.buffer THEN stateBuffer.buffer[index] ELSE Undefined

\* new CircularBuffer(capacity)
CircularBuffer(capacity) ==
  /\ stateBuffer' = [capacity |-> capacity, buffer |-> <<>>, head |-> 0, size |-> 0]
  /\ added' = <<>>

\* add(data)
add(data) ==
  /\ stateBuffer' = [stateBuffer EXCEPT
                       !.buffer = (stateBuffer.head :> data) @@ @,
                       !.head = (@ + 1) % stateBuffer.capacity,
                       !.size = IF @ < stateBuffer.capacity THEN @ + 1 ELSE @]
  /\ added' = Append(added, data)

\* getLast(count): the loop unshifts buffer[index], index running back from head - 1
getLast(count) ==
  IF count <= 0 \/ stateBuffer.size = 0 THEN <<>>
  ELSE ForLoop(LAMBDA n, acc :
                 [result |-> <<Slot(acc.index)>> \o acc.result,
                  index |-> (acc.index - 1 + stateBuffer.capacity) % stateBuffer.capacity],
               0, Min(count, stateBuffer.size),
               [result |-> <<>>,
                index |-> (stateBuffer.head - 1 + stateBuffer.capacity) % stateBuffer.capacity]
              ).result

\* getAll with unshift in place of push: the newest item first
getAllNewestFirst ==
  IF stateBuffer.size = 0 THEN <<>>
  ELSE ForLoop(LAMBDA n, acc :
                 [result |-> <<Slot(acc.index)>> \o acc.result,
                  index |-> (acc.index + 1) % stateBuffer.capacity],
               0, stateBuffer.size,
               [result |-> <<>>,
                index |-> (stateBuffer.head - stateBuffer.size + stateBuffer.capacity)
                            % stateBuffer.capacity]).result

\* getAll(): the loop pushes buffer[index], index running on from head - size
getAll ==
  IF stateBuffer.size = 0 THEN <<>>
  ELSE ForLoop(LAMBDA n, acc :
                 [result |-> Append(acc.result, Slot(acc.index)),
                  index |-> (acc.index + 1) % stateBuffer.capacity],
               0, stateBuffer.size,
               [result |-> <<>>,
                index |-> (stateBuffer.head - stateBuffer.size + stateBuffer.capacity)
                            % stateBuffer.capacity]).result

\* clear(): the slots keep what was written
clear ==
  /\ stateBuffer' = [stateBuffer EXCEPT !.size = 0, !.head = 0]
  /\ added' = <<>>

\* a CircularBuffer on its own
BufferNext ==
  /\ \/ \E capacity \in 1..MaxCapacity : CircularBuffer(capacity)
     \/ \E data \in 1..2 : Len(added) < MaxAdds /\ add(data)
     \/ clear
  /\ UNCHANGED <<EXTENDED_PRIMES, runVars, earlier, projVars, sieveVars, configVars,
                 isStreaming, subscribers, streamingStats, arrays, delivered, pipeCall, schedVars, ctlVars>>

BufferSpec == Init /\ [][BufferNext]_vars

\* ------------------------------------------------------------------------
\* mathDataPipeline.js: MathematicalDataPipeline
\* ------------------------------------------------------------------------
\* the most states streamed
MaxStates == 2

\* the array the caller holds and streams, and what it may hold
CallerArray == 1

\* notifySubscribers(enrichedState): each callback in turn, its exceptions caught
notifySubscribers(enrichedState) ==
  delivered' = [n \in 1..Len(subscribers) |->
                  [id |-> subscribers[n].id, state |-> enrichedState,
                   threw |-> subscribers[n].callback = "throws"]]

\* streamState storing the caller's array itself
streamStateShared(state56D, timeStep, parameters) ==
  LET passes == isStreaming /\ state56D # 0 /\ arrays[state56D].length = StateSize
      enrichedState == [state |-> state56D, time |-> timeStep, parameters |-> parameters,
                        derivatives |-> Null]
  IN  /\ pipeCall' = [op |-> "streamState", state |-> state56D, stored |-> passes, threw |-> FALSE]
      /\ UNCHANGED <<isStreaming, subscribers, arrays>>
      /\ IF passes
         THEN /\ add(enrichedState)
              /\ streamingStats' = [totalStates |-> streamingStats.totalStates + 1,
                                    avgStateSize |-> arrays'[enrichedState.state].length]
              /\ notifySubscribers(enrichedState)
         ELSE /\ delivered' = <<>>
              /\ UNCHANGED <<stateBuffer, added, streamingStats>>

\* streamState(state56D, timeStep, parameters); state56D is the identity of an
\* array, 0 for null; state: [...state56D] is a new array; updateStreamingStats
\* counts the state and notes its length
streamState(state56D, timeStep, parameters) ==
  LET passes == isStreaming /\ state56D # 0 /\ arrays[state56D].length = StateSize
      copy == CHOOSE id \in 1..(Cardinality(DOMAIN arrays) + 1) : id \notin DOMAIN arrays
      enrichedState == [state |-> copy, time |-> timeStep, parameters |-> parameters,
                        derivatives |-> Null]
  IN  /\ pipeCall' = [op |-> "streamState", state |-> state56D, stored |-> passes, threw |-> FALSE]
      /\ UNCHANGED <<isStreaming, subscribers>>
      /\ IF passes
         THEN /\ arrays' = (copy :> arrays[state56D]) @@ arrays
              /\ add(enrichedState)
              /\ streamingStats' = [totalStates |-> streamingStats.totalStates + 1,
                                    avgStateSize |-> arrays'[enrichedState.state].length]
              /\ notifySubscribers(enrichedState)
         ELSE /\ delivered' = <<>>
              /\ UNCHANGED <<stateBuffer, added, streamingStats, arrays>>

\* subscribe(subscriberId, callback): Map.set keeps the place of a key it holds
subscribe(subscriberId, callback) ==
  /\ pipeCall' = [op |-> "subscribe", state |-> 0, stored |-> FALSE, threw |-> callback = "notAFunction"]
  /\ delivered' = <<>>
  /\ subscribers' =
       IF callback = "notAFunction" THEN subscribers
       ELSE IF \E n \in 1..Len(subscribers) : subscribers[n].id = subscriberId
       THEN [n \in 1..Len(subscribers) |->
               IF subscribers[n].id = subscriberId
               THEN [id |-> subscriberId, callback |-> callback] ELSE subscribers[n]]
       ELSE Append(subscribers, [id |-> subscriberId, callback |-> callback])
  /\ UNCHANGED <<stateBuffer, added, isStreaming, streamingStats, arrays>>

\* unsubscribe(subscriberId)
unsubscribe(subscriberId) ==
  /\ pipeCall' = [op |-> "unsubscribe", state |-> 0, stored |-> FALSE, threw |-> FALSE]
  /\ delivered' = <<>>
  /\ subscribers' = SelectSeq(subscribers, LAMBDA entry : entry.id # subscriberId)
  /\ UNCHANGED <<stateBuffer, added, isStreaming, streamingStats, arrays>>

\* startStreaming(), stopStreaming()
startStreaming ==
  /\ pipeCall' = [op |-> "startStreaming", state |-> 0, stored |-> FALSE, threw |-> FALSE]
  /\ delivered' = <<>>
  /\ isStreaming' = TRUE
  /\ UNCHANGED <<stateBuffer, added, subscribers, streamingStats, arrays>>
stopStreaming ==
  /\ pipeCall' = [op |-> "stopStreaming", state |-> 0, stored |-> FALSE, threw |-> FALSE]
  /\ delivered' = <<>>
  /\ isStreaming' = FALSE
  /\ UNCHANGED <<stateBuffer, added, subscribers, streamingStats, arrays>>

\* destroy(): stopStreaming, subscribers.clear(), stateBuffer.clear()
destroy ==
  /\ pipeCall' = [op |-> "destroy", state |-> 0, stored |-> FALSE, threw |-> FALSE]
  /\ delivered' = <<>>
  /\ isStreaming' = FALSE
  /\ subscribers' = <<>>
  /\ clear
  /\ UNCHANGED <<streamingStats, arrays>>

\* the caller writes into the array it streams
MutateState(content) ==
  /\ arrays[CallerArray] # content
  /\ pipeCall' = [op |-> "mutate", state |-> 0, stored |-> FALSE, threw |-> FALSE]
  /\ delivered' = <<>>
  /\ arrays' = [arrays EXCEPT ![CallerArray] = content]
  /\ UNCHANGED <<stateBuffer, added, isStreaming, subscribers, streamingStats>>

\* the pipeline, its subscribers and the caller that streams states
PipelineNext ==
  /\ \/ \E state56D \in {0, CallerArray} : \E parameters \in {Null, Str} :
          /\ streamingStats.totalStates < MaxStates
          /\ streamState(state56D, Whole(streamingStats.totalStates), parameters)
     \/ \E subscriberId \in {"a", "b"} : \E callback \in {"returns", "throws", "notAFunction"} :
          subscribe(subscriberId, callback)
     \/ \E subscriberId \in {"a", "b"} : unsubscribe(subscriberId)
     \/ startStreaming
     \/ stopStreaming
     \/ destroy
     \/ \E length \in {StateSize - 1, StateSize, StateSize + 1} : \E tag \in 0..1 :
          (length # StateSize => tag = 0) /\ MutateState([length |-> length, v |-> tag])
  /\ UNCHANGED <<EXTENDED_PRIMES, runVars, earlier, projVars, sieveVars, configVars, schedVars, ctlVars>>

PipelineSpec == Init /\ [][PipelineNext]_vars

\* ------------------------------------------------------------------------
\* analysisScheduler.js: MathematicalAnalysisScheduler
\* ------------------------------------------------------------------------
\* the most interval timers created, the most times they fire
MaxTimers == 3
MaxRuns == 3

\* startScheduledAnalysis without the isRunning test
startScheduledAnalysisAgain ==
  /\ issued < MaxTimers
  /\ scheduler' = [scheduler EXCEPT !.isRunning = TRUE, !.schedulerInterval = issued + 1]
  /\ intervals' = intervals \cup {issued + 1}
  /\ issued' = issued + 1
  /\ schedCall' = [op |-> "startScheduledAnalysis", handle |-> issued + 1]
  /\ UNCHANGED triggered

\* startScheduledAnalysis(); setInterval returns a handle that was never
\* returned before and that is truthy
startScheduledAnalysis ==
  IF scheduler.isRunning
  THEN /\ schedCall' = [op |-> "startScheduledAnalysis", handle |-> 0]
       /\ UNCHANGED <<scheduler, intervals, issued, triggered>>
  ELSE /\ issued < MaxTimers
       /\ scheduler' = [scheduler EXCEPT !.isRunning = TRUE, !.schedulerInterval = issued + 1]
       /\ intervals' = intervals \cup {issued + 1}
       /\ issued' = issued + 1
       /\ schedCall' = [op |-> "startScheduledAnalysis", handle |-> issued + 1]
       /\ UNCHANGED triggered

\* stopScheduledAnalysis(), and destroy() which calls it and clears
\* analysisModules and analysisResults
stopScheduledAnalysis(destroying) ==
  /\ intervals' = IF scheduler.schedulerInterval # 0
                  THEN intervals \ {scheduler.schedulerInterval} ELSE intervals
  /\ scheduler' = [isRunning |-> FALSE, schedulerInterval |-> 0,
                   analysisModules |-> IF destroying THEN {} ELSE scheduler.analysisModules,
                   analysisResults |-> IF destroying THEN 0 ELSE scheduler.analysisResults,
                   analysisCount |-> scheduler.analysisCount]
  /\ schedCall' = [op |-> IF destroying THEN "destroy" ELSE "stopScheduledAnalysis",
                   handle |-> scheduler.schedulerInterval]
  /\ UNCHANGED <<issued, triggered>>

\* an active interval timer fires: runScheduledAnalysis(), which returns early
\* when the pipeline holds fewer than 10 states
runScheduledAnalysis(handle) ==
  /\ triggered < MaxRuns
  /\ triggered' = triggered + 1
  /\ schedCall' = [op |-> "runScheduledAnalysis", handle |-> handle]
  /\ scheduler' = IF Len(getLast(1)) = 0 \/ Len(getLast(100)) < 10 THEN scheduler
                  ELSE [scheduler EXCEPT !.analysisResults = @ + 1, !.analysisCount = @ + 1]
  /\ UNCHANGED <<intervals, issued>>

SchedulerNext ==
  /\ \/ startScheduledAnalysis
     \/ stopScheduledAnalysis(FALSE)
     \/ stopScheduledAnalysis(TRUE)
     \/ \E handle \in intervals : runScheduledAnalysis(handle)
  /\ UNCHANGED <<EXTENDED_PRIMES, runVars, earlier, projVars, sieveVars, configVars, pipeVars,
                 ctlVars>>

SchedulerSpec == Init /\ [][SchedulerNext]_vars

\* ------------------------------------------------------------------------
\* setupControls: updateSpiral, the controllers, the reset button, the observer
\* ------------------------------------------------------------------------
\* setupControls(...): config.addObserver(async (paramName, ...) => ...), the
\* observer being callback 1
setupControls ==
  /\ ~controls.ready
  /\ addObserver(1)
  /\ controls' = [controls EXCEPT !.ready = TRUE]
  /\ ctlCall' = [op |-> "setupControls", skipped |-> FALSE]
  /\ UNCHANGED <<displayed, atLastCall>>

\* updateSpiral() up to its await: skipped while a regeneration is in
\* progress, otherwise isRunning is set and the rest waits for the animation
\* frame; handler names the caller
updateSpiral(handler) ==
  /\ controls' = IF controls.isRunning THEN controls
                 ELSE [controls EXCEPT !.isRunning = TRUE, !.awaiting = TRUE]
  /\ atLastCall' = objects'[cfgRef']
  /\ ctlCall' = [op |-> handler, skipped |-> controls.isRunning]
  /\ UNCHANGED displayed

\* the rest of updateSpiral with isRunning reset at the end of the try block
AnimationFrameNoFinally ==
  LET currentParams == Stored
      threw == Validate(("type" :> "object") @@ currentParams, currentParams.steps,
                        currentParams.dt) # NoError
  IN  /\ controls.awaiting
      /\ displayed' = IF threw THEN displayed ELSE currentParams
      /\ controls' = [controls EXCEPT !.isRunning = threw, !.awaiting = FALSE, !.threw = threw]
      /\ ctlCall' = [op |-> "animationFrame", skipped |-> FALSE]
      /\ UNCHANGED <<configVars, atLastCall>>

\* the animation frame arrives and updateSpiral runs to its end without
\* another await: config.getAllParams(), generateSpiral, which throws what its
\* validation throws, projectSpiral, the new geometry; finally isRunning = false
AnimationFrame ==
  LET currentParams == Stored
      threw == Validate(("type" :> "object") @@ currentParams, currentParams.steps,
                        currentParams.dt) # NoError
  IN  /\ controls.awaiting
      /\ displayed' = IF threw THEN displayed ELSE currentParams
      /\ controls' = [controls EXCEPT !.isRunning = FALSE, !.awaiting = FALSE, !.threw = threw]
      /\ ctlCall' = [op |-> "animationFrame", skipped |-> FALSE]
      /\ UNCHANGED <<configVars, atLastCall>>

\* onChange of a parameter controller: config.setParam(key, value); await
\* updateSpiral(); the catch block only writes the controller
onChange(key, value) ==
  /\ controls.ready
  /\ setParam(key, value)
  /\ IF cfgError' = NoError THEN updateSpiral("onChange")
     ELSE /\ ctlCall' = [op |-> "onChange", skipped |-> FALSE]
          /\ UNCHANGED <<controls, displayed, atLastCall>>

\* onChange of the preset selector: config.loadPreset(presetName); the
\* controllers follow later
presetOnChange(presetName) ==
  /\ controls.ready
  /\ loadPreset(presetName)
  /\ ctlCall' = [op |-> "presetOnChange", skipped |-> FALSE]
  /\ UNCHANGED <<controls, displayed, atLastCall>>

\* the reset button: config.reset(), which calls the observer at once;
\* updateAllControllers hands every controller the stored value; updateSpiral
\* is called by the observer and again by the button, the later calls skipped
resetController ==
  /\ controls.ready
  /\ reset
  /\ updateSpiral("reset")

\* the debounce timer of the ConfigManager calls the observer: for 'preset'
\* and 'reset' it calls updateAllControllers and updateSpiral
ControlsObserverCalled ==
  /\ controls.ready
  /\ TimerFires
  /\ IF notificationTimeout.name \in {"preset", "reset"} THEN updateSpiral("observer")
     ELSE /\ ctlCall' = [op |-> "observer", skipped |-> FALSE]
          /\ UNCHANGED <<controls, displayed, atLastCall>>

ControlsNext ==
  /\ \/ setupControls
     \/ \E inp \in {<<"alpha", Near(3, 10)>>, <<"alpha", NaN>>, <<"steps", Near(10005, 10)>>} :
          onChange(inp[1], inp[2])
     \/ \E presetName \in {"Chaotic Spiral", "Harmonic Resonance"} : presetOnChange(presetName)
     \/ resetController
     \/ ControlsObserverCalled
     \/ AnimationFrame
  /\ UNCHANGED <<EXTENDED_PRIMES, runVars, earlier, projVars, sieveVars, pipeVars, schedVars>>

ControlsSpec == Init /\ [][ControlsNext]_vars

\* ------------------------------------------------------------------------
\* Properties
\* ------------------------------------------------------------------------
AllFinite(T) == \A n \in 1..Len(T) : \A c \in 1..Len(T[n]) : IsFinite(T[n][c])
SameArguments == earlier.params = params /\ earlier.steps = steps /\ earlier.dt = dt
Ragged(T) == \E m, n \in 1..Len(T) : Len(T[m]) # Len(T[n])
ShapeOf(T) ==
  /\ Len(projResult.X) = Len(T)
  /\ Len(projResult.Y) = Len(T)
  /\ Len(projResult.Z) = Len(T)
  /\ Len(projResult.color) = Len(T)
  /\ Len(projResult.size) = Len(T)
  /\ Len(projResult.opacity) = Len(T)

\* C1: every state vector of a trajectory returned by generateSpiral is finite
\* in every component, its last element included.
C1_ReturnedFinite == pc = "returned" => AllFinite(points)

C3_Rejected(p, s, d) ==
  \/ p.type # "object"
  \/ \E n \in NameSet : p[n].k \in {"undef", "string", "nan"}
  \/ ~(s.k = "fin" /\ s.v % SCALE = 0 /\ s.v >= SCALE /\ s.v <= StepsLimit * SCALE)
  \/ d.k \notin {"fin", "nan", "inf"}
  \/ d.k = "inf"
  \/ d.k = "fin" /\ (d.v <= 0 \/ d.v > SCALE)
C3_OnlyParametersBad(p, s, d) ==
  /\ p.type = "object"
  /\ s.k = "fin" /\ s.v % SCALE = 0 /\ s.v >= SCALE /\ s.v <= StepsLimit * SCALE
  /\ d.k = "fin" /\ d.v > 0 /\ d.v <= SCALE
  /\ \E n \in NameSet : p[n].k \in {"undef", "string", "nan"}

\* C3: a call whose params is null or no object, or has one of the seven
\* parameters missing, not a number or NaN, or whose steps is no integer in
\* [1, 100000], or whose dt is no number, <= 0 or > 1, throws before any step:
\* no point is computed, and when only parameters are bad the error names the
\* first bad one.
C3_Rejects ==
  (pc # "idle" /\ C3_Rejected(params, steps, dt)) =>
    /\ pc = "threw"
    /\ error # NoError
    /\ points = <<>> /\ i = 0 /\ harmonics = <<>>
    /\ C3_OnlyParametersBad(params, steps, dt) =>
         /\ Len(error) = 3
         /\ error[2] \in NameSet
         /\ params[error[2]].k \in {"undef", "string", "nan"}
         /\ \A n \in 1..Len(names) :
              params[names[n]].k \in {"undef", "string", "nan"} =>
                \E m \in 1..n : names[m] = error[2]
C3_Witness ==
  /\ pc = "threw"
  /\ error = ParamError("delta")
  /\ params.delta = NaN

\* C4: a call with a parameter equal to +Infinity or -Infinity, or with dt equal
\* to NaN, is rejected with an error before any step.
C4_RejectsNonFinite ==
  (pc # "idle" /\ ((\E n \in NameSet : params.type = "object" /\ params[n].k = "inf")
                   \/ dt.k = "nan")) =>
    pc = "threw"

C6_Deterministic ==
  (pc = "returned" /\ earlier.set /\ SameArguments) => points = earlier.points
C6_Witness ==
  /\ pc = "returned"
  /\ earlier.set
  /\ ~earlier.current
  /\ SameArguments
  /\ Len(points) = MaxSteps

\* C7: for a non-empty trajectory T, projectSpiral returns X, Y, Z, color, size
\* and opacity of length len(T) each, on the PCA path and on the fallback path,
\* and every color entry is an array of three numbers.
C7_Shape ==
  (projStatus = "returned" /\ Len(projPoints) >= 1) =>
    /\ ShapeOf(projPoints)
    /\ \A n \in 1..Len(projResult.color) :
         /\ Len(projResult.color[n]) = 3
         /\ \A c \in 1..3 : TypeofNumber(projResult.color[n][c])
C7_Witness ==
  /\ projStatus = "returned"
  /\ projFrom = "generateSpiral"
  /\ pcaFailed
  /\ Len(projPoints) = MaxSteps

C9_FailsFast ==
  (projStatus # "none" /\ (Len(projPoints) = 0 \/ Ragged(projPoints))) =>
    projStatus = "threw"

\* C9 as amended: projectSpiral throws, returning no result, when given a
\* zero-length trajectory; given a non-empty trajectory whose rows differ in
\* length it does not throw and returns arrays of length len(T).
C9_EmptyThrowsRaggedReturns ==
  /\ (projStatus # "none" /\ Len(projPoints) = 0) =>
       projStatus = "threw" /\ projResult = NoResult
  /\ (projStatus # "none" /\ Len(projPoints) >= 1 /\ Ragged(projPoints)) =>
       projStatus = "returned" /\ ShapeOf(projPoints)
C9_Witness == projStatus = "threw" /\ projPoints = <<>> /\ projFrom = "caller"

\* C10: for a trajectory returned by generateSpiral, shortened by instability
\* or not, projectSpiral yields size[i] >= 1 and 0 <= opacity[i] <= 1 at every i.
C10_Bounds ==
  (projStatus = "returned" /\ projFrom = "generateSpiral") =>
    \A n \in 1..Len(projPoints) :
      /\ Ge(projResult.size[n], One)
      /\ Ge(projResult.opacity[n], Zero)
      /\ Le(projResult.opacity[n], One)
C10_Witness ==
  /\ projStatus = "returned"
  /\ projFrom = "generateSpiral"
  /\ \E n \in 1..Len(projPoints) : projPoints[n][10] = NaN /\ projPoints[n][11] = NaN

\* the initial state as a state vector
InitialVector ==
  Point(InitialPosition, InitialPosition, InitialPosition, Zero, Zero, Zero,
        InitialHarmonics(HarmonicCount))
\* the state one Euler step after the initial state, for the arguments of the run
FirstStep ==
  Euler(dt, InitialPosition, InitialPosition, InitialPosition, Zero, Zero, Zero,
        InitialHarmonics(HarmonicCount),
        Derivatives(params, 0, dt, InitialPosition, InitialPosition, InitialPosition,
                    Zero, Zero, Zero, InitialHarmonics(HarmonicCount),
                    calculateHarmonicCoupling(InitialHarmonics(HarmonicCount), primes,
                                              Mul(Whole(0), dt), CouplingStrength),
                    phi_dot(params, 0, dt)))

\* C11 as stated: element 0 of the returned trajectory is the initial state,
\* position (0.1, 0.1, 0.1), velocity (0, 0, 0), all harmonics 0 (the state at
\* simulated time 0).
C11_StartsAtInitialState == (pc = "returned" /\ points # <<>>) => points[1] = InitialVector

\* C11 as amended: the initial state is the state the first step starts from
\* and is not appended; every iteration appends the state after its Euler
\* step, so element 0 is the state one step after the initial state and the
\* last element is the state after as many steps as the trajectory is long.
C11_AfterEachStep ==
  /\ (pc = "loop" /\ i = 0 /\ ~broke) =>
       /\ points = <<>>
       /\ Point(x, y, z, u, v, w, harmonics) = InitialVector
  /\ pc \in {"loop", "returned"} =>
       /\ Len(points) = i + (IF broke THEN 1 ELSE 0)
       /\ points # <<>> =>
            /\ points[Len(points)] = Point(x, y, z, u, v, w, harmonics)
            /\ points[1] = Point(FirstStep.x, FirstStep.y, FirstStep.z, FirstStep.u,
                                 FirstStep.v, FirstStep.w, FirstStep.harmonics)
C11_Witness ==
  /\ pc = "returned"
  /\ params = DefaultParams
  /\ Len(points) = MaxSteps
  /\ points[1] # InitialVector
  /\ points[1][1] = InitialPosition

\* the primes p with 2 <= p <= limit
PrimesUpTo(limit) == {p \in 2..limit : \A d \in 2..(p - 1) : p % d # 0}

\* C12: for a limit >= 2 sieveOfEratosthenes returns exactly the primes p with
\* 2 <= p <= limit, strictly ascending and so without duplicates; limit 30 gives
\* [2,3,5,7,11,13,17,19,23,29].
C12_ExactlyThePrimes ==
  (sieveStatus # "none" /\ sieveLimit >= 2) =>
    /\ sieveStatus = "returned"
    /\ \A n \in 1..(Len(sieveResult) - 1) : sieveResult[n] < sieveResult[n + 1]
    /\ {sieveResult[n] : n \in 1..Len(sieveResult)} = PrimesUpTo(sieveLimit)
    /\ sieveLimit = 30 => sieveResult = <<2, 3, 5, 7, 11, 13, 17, 19, 23, 29>>
C12_Witness ==
  /\ sieveStatus = "returned"
  /\ sieveLimit = 30
  /\ Len(sieveResult) = 10
  /\ sieveResult[10] = 29

\* C13: for a limit < 2 (1, 0 and the negative integers) the prime generator
\* returns an empty list and does not throw.
C13_EmptyBelowTwo ==
  (sieveStatus # "none" /\ sieveLimit < 2) =>
    sieveStatus = "returned" /\ sieveResult = <<>>

\* C14: every weight of the table of a run, harmonicScales[i] =
\* getHarmonicWeight(primes[i], i, H) over the first H primes, satisfies
\* 0 < weight <= 0.01, and the weights do not increase with the index.
C14_WeightTable ==
  pc \in {"loop", "returned"} =>
    /\ Len(harmonicScales) = HarmonicCount
    /\ \A j \in 1..Len(harmonicScales) :
         /\ DecLt(DecZero, harmonicScales[j])
         /\ ~DecLt(Dec(1, 2), harmonicScales[j])
         /\ j > 1 => ~DecLt(harmonicScales[j - 1], harmonicScales[j])
C14_Witness ==
  /\ pc = "loop"
  /\ harmonicScales[1] = Dec(1, 2)
  /\ DecLt(harmonicScales[HarmonicCount], harmonicScales[5])
  /\ DecLt(harmonicScales[5], harmonicScales[1])
  /\ DecLt(harmonicScales[HarmonicCount], Dec(1, 8))
  /\ DecLt(DecZero, harmonicScales[HarmonicCount])

\* C15 as stated: a call with a value outside the documented range of
\* PARAM_RANGES (steps outside [1000, 50000], dt outside [0.001, 0.1], ...)
\* fails with an error and performs no step.
C15_RangesEnforced ==
  (pc # "idle" /\ OutsideRanges(params, steps, dt)) => pc = "threw" /\ points = <<>>

\* C15 as amended: generateSpiral checks its own preconditions only; a call
\* with a value outside the documented ranges throws, performing no step,
\* exactly when params is no object, steps no integer in [1, 100000], dt no
\* number or <= 0 or > 1, or a parameter missing, no number or NaN, and is
\* accepted and integrated otherwise.
C15_OwnPreconditionsOnly ==
  (pc # "idle" /\ OutsideRanges(params, steps, dt)) =>
    /\ pc = "threw" <=> C3_Rejected(params, steps, dt)
    /\ pc = "threw" => points = <<>> /\ i = 0
C15_Witness ==
  /\ pc = "returned"
  /\ params = DefaultParams
  /\ OutsideRange(steps, PARAM_RANGES.steps)
  /\ OutsideRange(dt, PARAM_RANGES.dt)
  /\ Len(points) = MaxSteps

\* C16: setParam(name, value) throws when name is no known parameter, value is
\* no number or NaN, or value lies outside [min, max] of PARAM_RANGES[name],
\* and then the stored parameters are unchanged and no observer is called; on
\* success that one parameter changes and each registered observer is called
\* once with (name, value).
C16_SetParamContract ==
  [][cfgCall'.op = "setParam" =>
       LET name == cfgCall'.name
           value == cfgCall'.value
       IN  IF \/ name \notin DOMAIN PARAM_RANGES
              \/ ~TypeofNumber(value)
              \/ IsNaN(value)
              \/ OutsideRange(value, PARAM_RANGES[name])
           THEN /\ cfgError' # NoError
                /\ objects'[cfgRef'] = objects[cfgRef]
                /\ notified' = <<>>
           ELSE /\ cfgError' = NoError
                /\ objects'[cfgRef'] = [objects[cfgRef] EXCEPT ![name] = value]
                /\ Len(notified') = Len(observers)
                /\ \A n \in 1..Len(observers) :
                     /\ notified'[n].observer = observers[n]
                     /\ notified'[n].name = name
                     /\ notified'[n].value = value]_vars

\* C17: after any sequence of setParam, loadPreset and reset, failed calls
\* included, every stored value is finite, steps is a positive integer, dt is
\* positive, and generateSpiral(params, params.steps, params.dt) accepts the record.
C17_StoredRecordValid ==
  /\ \A n \in DOMAIN Stored : IsFinite(Stored[n])
  /\ IsInteger(Stored.steps) /\ Gt(Stored.steps, Zero)
  /\ Gt(Stored.dt, Zero)
  /\ Validate([n \in NameSet |-> Stored[n]] @@ [type |-> "object"], Stored.steps, Stored.dt)
       = NoError

\* C18: loadPreset(presetName) throws when the name is unknown or a value of the
\* preset fails validation, and then the stored parameters are unchanged and no
\* notification is scheduled; otherwise every parameter of the preset is
\* applied before any observer runs, the notification being scheduled.
C18_LoadPresetAllOrNothing ==
  [][cfgCall'.op = "loadPreset" =>
       LET presetName == cfgCall'.text
       IN  IF \/ presetName \notin DOMAIN PRESETS
              \/ \E n \in DOMAIN PRESETS[presetName] :
                   validateParam(n, PRESETS[presetName][n]) # NoError
           THEN /\ cfgError' # NoError
                /\ objects'[cfgRef'] = objects[cfgRef]
                /\ notified' = <<>>
                /\ notificationTimeout' = notificationTimeout
                /\ pendingUpdates' = pendingUpdates
           ELSE /\ cfgError' = NoError
                /\ \A n \in DOMAIN PRESETS[presetName] :
                     objects'[cfgRef'][n] = PRESETS[presetName][n]
                /\ notified' = <<>>
                /\ notificationTimeout'.set]_vars

\* C19: getAllParams returns an object with the stored contents; a change the
\* caller makes to a returned object leaves the stored parameters as they
\* were, and setParam, loadPreset and reset leave every returned object as it was.
C19_CopiesAreSeparate ==
  [][/\ cfgCall'.op = "getAllParams" =>
          /\ objects'[cfgRef'] = objects[cfgRef]
          /\ \E c \in copies' : objects'[c] = objects[cfgRef]
     /\ cfgCall'.op = "modify" =>
          /\ cfgRef' = cfgRef
          /\ objects'[cfgRef'] = objects[cfgRef]
     /\ cfgCall'.op \in {"setParam", "loadPreset", "reset"} =>
          \A c \in copies : objects'[c] = objects[c]]_vars
C19_Witness ==
  /\ cfgCall.op = "setParam"
  /\ cfgError = NoError
  /\ Stored.alpha = Near(3, 10)
  /\ \E c \in copies : objects[c].alpha = Near(4, 10)
  /\ \E c \in copies : objects[c].alpha = DEFAULT_PARAMS.alpha

\* C20: EXTENDED_PRIMES.slice(0, 200) has exactly 200 entries, begins
\* 2,3,5,7,11,13,17,19,23,29, and its last entry is at least 1000.
C20_TwoHundredPrimes ==
  LET first == SliceTo(EXTENDED_PRIMES, 200)
  IN  /\ Len(first) = 200
      /\ SubSeq(first, 1, 10) = <<2, 3, 5, 7, 11, 13, 17, 19, 23, 29>>
      /\ first[Len(first)] >= 1000

\* the state vector one explicit Euler step after the state vector pt, the
\* step having index n: every derivative from pt and the time n * dt
EulerFrom(pt, n) ==
  LET h == SubSeq(pt, 7, Len(pt))
      next == Euler(dt, pt[1], pt[2], pt[3], pt[4], pt[5], pt[6], h,
                    Derivatives(params, n, dt, pt[1], pt[2], pt[3], pt[4], pt[5], pt[6], h,
                                calculateHarmonicCoupling(h, primes, Mul(Whole(n), dt),
                                                          CouplingStrength),
                                phi_dot(params, n, dt)))
  IN  Point(next.x, next.y, next.z, next.u, next.v, next.w, next.harmonics)

\* C21: each step is an explicit Euler step: element n of the trajectory is
\* element n - 1 advanced by derivative * dt, every derivative (dx .. dw, the
\* coupling term, every dh[j] with its cross term) computed from element n - 1
\* and the time n * dt; the positions advance by the velocities of the start
\* of the step.
C21_ExplicitEuler ==
  pc \in {"loop", "returned"} =>
    \A n \in 1..(Len(points) - 1) :
      /\ points[n + 1] = EulerFrom(points[n], n)
      /\ \A c \in 1..3 : points[n + 1][c] = Add(points[n][c], Mul(points[n][c + 3], dt))
C21_Witness ==
  /\ pc = "returned"
  /\ ~broke
  /\ Len(points) = MaxSteps
  /\ points[2][4] # points[1][4]
  /\ points[3][1] # points[2][1]

\* the components of a point at indices 0..5 and 6, 11, 16, ... below its
\* length, in ascending order of index
EveryFifthFromSix(point) ==
  LET keep == {c \in 0..(Len(point) - 1) : c < 6 \/ (c - 6) % 5 = 0}
      nth(m) == CHOOSE c \in keep : Cardinality({d \in keep : d < c}) = m - 1
  IN  [m \in 1..Cardinality(keep) |-> point[nth(m) + 1]]

\* C22: when the points have more than 50 components (points[0] decides),
\* PCA is fed, for every point, exactly the components at indices 0..5 and
\* 6, 11, 16, ... below the point's length, in that order, and the X, Y, Z it
\* yields are multiplied by 10; with 50 or fewer components PCA is fed the
\* points as they are and its X, Y, Z are not scaled.
C22_SampledProjection ==
  (projStatus = "returned" /\ projPoints # <<>>) =>
    LET high == Len(projPoints[1]) > 50
        factor == IF high THEN 10 ELSE 1
    IN  /\ Len(pcaData) = Len(projPoints)
        /\ \A n \in 1..Len(projPoints) :
             /\ pcaData[n] = IF high THEN EveryFifthFromSix(projPoints[n]) ELSE projPoints[n]
             /\ ~pcaFailed =>
                  /\ projResult.X[n] = [k |-> "pca", row |-> n, component |-> 0, times |-> factor]
                  /\ projResult.Y[n] = [k |-> "pca", row |-> n, component |-> 1, times |-> factor]
                  /\ projResult.Z[n] = [k |-> "pca", row |-> n, component |-> 2, times |-> factor]
C22_Witness ==
  /\ projStatus = "returned"
  /\ projFrom = "generateSpiral"
  /\ ~pcaFailed
  /\ Len(projPoints) = MaxSteps
  /\ Len(projPoints[1]) = 56
  /\ Len(pcaData[1]) = 16
  /\ pcaData[1][7] = projPoints[1][7]
  /\ pcaData[1][16] = projPoints[1][52]
  /\ projResult.X[1].times = 10

\* C23: after any sequence of setParam, loadPreset (of a built-in preset) and
\* reset, each of the nine parameters stored lies within [min, max] of its
\* PARAM_RANGES entry; the defaults and the five built-in presets are within range.
C23_StoredWithinRanges ==
  /\ \A n \in DOMAIN PARAM_RANGES :
       /\ n \in DOMAIN Stored
       /\ TypeofNumber(Stored[n]) /\ ~IsNaN(Stored[n])
       /\ ~OutsideRange(Stored[n], PARAM_RANGES[n])
       /\ ~OutsideRange(DEFAULT_PARAMS[n], PARAM_RANGES[n])
  /\ Cardinality(DOMAIN PRESETS) = 5
  /\ \A presetName \in DOMAIN PRESETS :
       /\ DOMAIN PRESETS[presetName] = DOMAIN PARAM_RANGES
       /\ \A n \in DOMAIN PARAM_RANGES : ~OutsideRange(PRESETS[presetName][n], PARAM_RANGES[n])
C23_Witness ==
  /\ cfgCall.op = "setParam"
  /\ cfgCall.name = "omega"
  /\ OutsideRange(cfgCall.value, PARAM_RANGES.omega)
  /\ cfgError # NoError
  /\ Stored.omega = PRESETS["Chaotic Spiral"].omega
  /\ Stored.alpha = Near(3, 10)

\* C24: in the trajectory of generateSpiral a state vector with a non-finite
\* component is the last element: the loop stops at the first step that
\* produces one, and no state is computed from it or appended after it.
C24_NonFiniteOnlyLast ==
  pc \in {"loop", "returned"} =>
    /\ \A n \in 1..(Len(points) - 1) : \A c \in DOMAIN points[n] : IsFinite(points[n][c])
    /\ broke <=> (points # <<>> /\ \E c \in DOMAIN points[Len(points)] :
                                     ~IsFinite(points[Len(points)][c]))
    /\ broke => Len(points) = i + 1 /\ ~ENABLED Step
C24_Witness ==
  /\ pc = "returned"
  /\ broke
  /\ Len(points) > 1
  /\ Lt(Whole(Len(points)), steps)
  /\ ~IsFinite(points[Len(points)][4])
  /\ IsFinite(points[Len(points)][1])

\* C25: preset notifications are debounced: when loadPreset has succeeded
\* k >= 1 times before the timer fires, the timer is pending once, and when it
\* fires each registration of an observer is called exactly once for the whole
\* burst, with paramName 'preset' and the name of the preset loaded last;
\* afterwards no timer is pending and pendingUpdates is empty.
C25_Debounced ==
  [][/\ (cfgCall'.op = "loadPreset" /\ cfgError' = NoError) =>
          /\ notified' = <<>>
          /\ notificationTimeout'.set
          /\ burst'.calls >= 1 /\ burst'.last = cfgCall'.text
     /\ cfgCall'.op = "timer" =>
          /\ burst.calls >= 1
          /\ Len(notified') = Len(observers)
          /\ \A n \in 1..Len(observers) :
               /\ notified'[n].observer = observers[n]
               /\ notified'[n].name = "preset"
               /\ notified'[n].text = burst.last
               /\ notified'[n].updates = {"preset"}
          /\ ~notificationTimeout'.set
          /\ pendingUpdates' = {}
     /\ cfgCall'.op \notin {"loadPreset", "timer"} =>
          \A n \in 1..Len(notified') : notified'[n].name # "preset"]_vars
C25_Witness ==
  /\ cfgCall.op = "timer"
  /\ cfgCall.text = "Chaotic Spiral"
  /\ burst.calls > 1
  /\ Len(notified) = MaxObservers
  /\ \A n \in 1..Len(notified) : notified[n].text = "Chaotic Spiral"
  /\ ~notificationTimeout.set

C27_CircularBuffer ==
  LET c == stateBuffer.capacity
      n == Len(added)
      m == Min(n, c)
  IN  /\ 0 <= stateBuffer.size /\ stateBuffer.size <= c
      /\ stateBuffer.size = m
      /\ getAll = SubSeq(added, n - m + 1, n)
      /\ \A k \in (-1)..(MaxAdds + 1) :
           getLast(k) = IF k <= 0 THEN <<>>
                        ELSE SubSeq(getAll, m - Min(k, m) + 1, m)
C27_Witness ==
  /\ stateBuffer.capacity = 2
  /\ Len(added) = MaxAdds
  /\ stateBuffer.head = 1
  /\ getAll = <<1, 2>>
  /\ getLast(1) = <<2>>


\* C28: streamState stores and notifies exactly when streaming is on and the
\* state has 56 components; otherwise buffer, statistics and subscribers stay
\* as they were and nobody is called. A stored state is a copy: a new array
\* with the caller's contents, which later writes of the caller do not reach.
\* Every subscribed id is called exactly once with the stored state, in
\* subscription order, whether or not an earlier subscriber threw.
C28_StreamState ==
  [][/\ pipeCall'.op = "streamState" =>
          /\ (stateBuffer' # stateBuffer) <=>
               (isStreaming /\ pipeCall'.state # 0 /\ arrays[CallerArray].length = StateSize)
          /\ pipeCall'.stored <=> (stateBuffer' # stateBuffer)
          /\ ~pipeCall'.stored =>
               /\ delivered' = <<>>
               /\ UNCHANGED <<stateBuffer, added, streamingStats, subscribers, isStreaming>>
          /\ pipeCall'.stored =>
               LET stored == added'[Len(added')]
               IN  /\ Len(added') = Len(added) + 1
                   /\ getLast(1)' = <<stored>>
                   /\ stored.state # CallerArray
                   /\ stored.state \notin DOMAIN arrays
                   /\ arrays'[stored.state] = arrays[CallerArray]
                   /\ arrays'[CallerArray] = arrays[CallerArray]
                   /\ streamingStats'.totalStates = streamingStats.totalStates + 1
                   /\ Len(delivered') = Len(subscribers)
                   /\ \A n \in 1..Len(subscribers) :
                        /\ delivered'[n].id = subscribers[n].id
                        /\ delivered'[n].state = stored
                   /\ \A m, n \in 1..Len(subscribers) :
                        subscribers[m].id = subscribers[n].id => m = n
                   /\ subscribers' = subscribers
     /\ pipeCall'.op = "mutate" =>
          \A n \in 1..Len(added) : arrays'[added[n].state] = arrays[added[n].state]
     /\ pipeCall'.op \notin {"streamState", "none"} =>
          /\ delivered' = <<>>
          /\ streamingStats' = streamingStats]_vars

\* a state was stored while a throwing subscriber stood before a returning
\* one, both were called, and the caller has since overwritten its array
C28_Witness ==
  /\ pipeCall.op = "mutate"
  /\ Len(added) = 1
  /\ arrays[CallerArray].v # arrays[added[1].state].v
  /\ Len(subscribers) = 2
  /\ subscribers[1].callback = "throws"
  /\ subscribers[2].callback = "returns"
  /\ streamingStats.totalStates = 2
  /\ stateBuffer.size = 1

\* C29: whatever startScheduledAnalysis, stopScheduledAnalysis and destroy calls
\* were made, at most one interval timer is active, isRunning is true exactly
\* when one is, and it is the one schedulerInterval names; a start while
\* running creates no timer; stop and destroy leave no timer, and the timers
\* call runScheduledAnalysis only while the scheduler is running.
C29_OneTimer ==
  [][/\ Cardinality(intervals') <= 1
     /\ scheduler'.isRunning <=> intervals' # {}
     /\ scheduler'.isRunning <=> scheduler'.schedulerInterval # 0
     /\ scheduler'.isRunning => intervals' = {scheduler'.schedulerInterval}
     /\ (schedCall'.op = "startScheduledAnalysis" /\ scheduler.isRunning) =>
          /\ intervals' = intervals
          /\ issued' = issued
          /\ scheduler' = scheduler
     /\ (schedCall'.op = "startScheduledAnalysis" /\ ~scheduler.isRunning) =>
          /\ issued' = issued + 1
          /\ intervals' = {issued'}
     /\ schedCall'.op \in {"stopScheduledAnalysis", "destroy"} =>
          /\ intervals' = {}
          /\ ~scheduler'.isRunning
     /\ schedCall'.op = "runScheduledAnalysis" =>
          /\ scheduler.isRunning
          /\ schedCall'.handle = scheduler.schedulerInterval]_vars

\* the scheduler was started again after a stop, a second start while running
\* was ignored, and the timers have fired before and after
C29_Witness ==
  /\ schedCall = [op |-> "startScheduledAnalysis", handle |-> 0]
  /\ scheduler.isRunning
  /\ issued = 2
  /\ intervals = {2}
  /\ triggered >= 2

====
